---- MODULE Spec2Model ----
(***************************************************************************)
(* Model of the risk-information orchestration service:                    *)
(*   src/utils/crud_postgres.py        case lookup and result persistence   *)
(*   src/helpers/obtener_info_riesgos.py  the two orchestrators             *)
(*                                                                         *)
(* One request is served on one database connection (`pool`), so the       *)
(* model has one control location `pc` for the request's coroutine; the    *)
(* individual orchestrator's source tasks have their own locations.        *)
(* Python None is the value Null for text and NoCaso for a case id.        *)
(***************************************************************************)
EXTENDS Integers, Sequences, FiniteSets, TLC

VARIABLES
    pc,             \* control location of the request's coroutine
    ret,            \* who called insertar_resultados_riesgos: "db", "col", "ind"
    riesgos,        \* insertar_resultados_riesgos: parameter `riesgos`
    caso_id,        \* parameter / local `caso_id`
    registros,      \* local `registros_a_insertar`
    idx,            \* position of the executemany loop in `registros`
    txn,            \* rows written on the connection and not yet committed
    upd,            \* case ids whose status update is written and not yet committed
    resultados,     \* committed rows of table ms_resultados
    estados,        \* committed table ms_estados_casos: CASO_ID -> row
    error,          \* exception propagating out of the current call, or NoError
    ncalls,         \* number of calls started so far
    ins_committed,  \* history: the current call's insert was committed
    written,        \* history: rows the current call's commits added to ms_resultados
    pre_estado,     \* history: ESTADO of the call's case when the current call began
    upd_executed,   \* history: the current call executed its status UPDATE
    cfg,            \* df_info_riesgos: the configuration rows, in order
    api,            \* the endpoint: TIPO_PRODUCTO of the first row, and the response
    helper,         \* a helper function called alone: its arguments and its results
    i_fuente,       \* collective: position of the loop in fuentes_en_orden
    placeholders,   \* the placeholder mapping of the orchestration
    calls,          \* collective, history: the requests issued, each with the mapping it was built from
    resultado_api,  \* collective: the response of the last request
    resp_lista,     \* history: the response of the list-documents request
    lista_de_riesgos, \* collective: what _procesar_con_gemini returned
    retorno,        \* <<>> until the orchestrator returns, then <<its "riesgos" value>>
    variables_dict, \* individual: the merged variable mapping
    tareas          \* individual: one task per FUENTE group

dbvars == <<riesgos, caso_id, registros, idx, txn, upd, resultados, estados,
            error, ncalls, ins_committed, written, pre_estado, upd_executed>>

colvars == <<i_fuente, resultado_api, resp_lista, lista_de_riesgos>>

indvars == <<variables_dict, tareas>>

orqvars == <<cfg, api, helper, placeholders, calls, retorno, colvars, indvars>>

vars == <<pc, ret, dbvars, orqvars>>

----------------------------------------------------------------------------
(* Bounds of the model *)

\* calls of the persistence routine in one behaviour
MaxCalls == 2
\* length of a list of risks handed to persistence
MaxRiesgos == 2
\* configuration rows of a collective case
MaxFilas == 2
\* tokens of the text that the generative model answers
MaxTexto == 5

----------------------------------------------------------------------------
(* Values *)

Null == "<None>"
NoError == "<no error>"
\* scalar_one_or_none() of MAX("CASO_ID") over no row
NoCaso == 0

\* The request of the endpoint (IdentificacionRiesgosRequest).
Request ==
    [consecutivo |-> 7, codigo_producto |-> 1, codigo_subproducto |-> 2,
     codigo_movimiento |-> "M", codigo_modificacion |-> Null]

CasoIds == {1, 2}

PENDIENTE == "PENDIENTE"
RIESGOS_IDENTIFICADOS == "RIESGOS IDENTIFICADOS"

\* A risk as the orchestrators hand it to persistence: the three fields the
\* dedup key reads.  "X1" is a document number that is not a number.
TiposDocumento == {"CC"}
NumerosDocumento == {Null, "123", "X1"}
Placas == {Null, "123"}

Riesgos ==
    [TIPO_DOCUMENTO : TiposDocumento, NUMERO_DOCUMENTO : NumerosDocumento,
     PLACA : Placas]

ListasDeRiesgos == UNION {[1..n -> Riesgos] : n \in 0..MaxRiesgos}

----------------------------------------------------------------------------
(* Python helpers used by insertar_resultados_riesgos *)

\* bool(x) of a text value or None
PyTruthy(s) == s # Null /\ s # ""

\* int(s) raises ValueError
IntRaises(s) == s \notin {"123"}

\* filter(None, [n]) then str, of an integer part
IntPart(n) == IF n = 0 THEN <<>> ELSE <<ToString(n)>>

\* filter(None, [s]) then str, of a text part
StrPart(s) == IF PyTruthy(s) THEN <<s>> ELSE <<>>

RECURSIVE JoinDash(_)
\* "-".join(parts)
JoinDash(parts) ==
    IF Len(parts) = 0 THEN ""
    ELSE IF Len(parts) = 1 THEN parts[1]
    ELSE parts[1] \o "-" \o JoinDash(Tail(parts))

\* id_parts after filter(None, ...) and map(str, ...)
IdParts(caso, riesgo) ==
    IntPart(caso) \o IntPart(Request.codigo_producto)
    \o IntPart(Request.codigo_subproducto) \o StrPart(Request.codigo_movimiento)
    \o StrPart(riesgo.TIPO_DOCUMENTO) \o StrPart(riesgo.NUMERO_DOCUMENTO)
    \o (IF PyTruthy(riesgo.PLACA) THEN StrPart(riesgo.PLACA) ELSE <<>>)

riesgo_motor_id(caso, riesgo) == JoinDash(IdParts(caso, riesgo))

\* the dictionary `registro` built for one risk; the number column holds the
\* digits of int(numero_documento)
Registro(caso, riesgo) ==
    [RIESGO_MOTOR_ID |-> riesgo_motor_id(caso, riesgo),
     CASO_ID |-> caso,
     TIPO_DOCUMENTO_ASEGURADO |-> riesgo.TIPO_DOCUMENTO,
     NUMERO_DOCUMENTO_ASEGURADO |->
        IF PyTruthy(riesgo.NUMERO_DOCUMENTO) THEN riesgo.NUMERO_DOCUMENTO ELSE Null]

\* the loop over `riesgos` raises ValueError at int(numero_documento)
RegistrosRaise(lista) ==
    \E i \in 1..Len(lista) :
        PyTruthy(lista[i].NUMERO_DOCUMENTO) /\ IntRaises(lista[i].NUMERO_DOCUMENTO)

RegistrosAInsertar(caso, lista) == [i \in 1..Len(lista) |-> Registro(caso, lista[i])]

Keys(rows) == {r.RIESGO_MOTOR_ID : r \in rows}

\* INSERT of one row without its ON CONFLICT clause: the unique index on
\* RIESGO_MOTOR_ID rejects a key that is already there
InsertPlain(rows, reg) ==
    IF reg.RIESGO_MOTOR_ID \in Keys(rows)
    THEN [rows |-> rows, violation |-> TRUE]
    ELSE [rows |-> rows \cup {reg}, violation |-> FALSE]

\* INSERT ... ON CONFLICT ("RIESGO_MOTOR_ID") DO NOTHING of one row, against the
\* rows the connection sees
InsertOnConflictDoNothing(rows, reg) ==
    IF reg.RIESGO_MOTOR_ID \in Keys(rows)
    THEN [rows |-> rows, violation |-> FALSE]
    ELSE [rows |-> rows \cup {reg}, violation |-> FALSE]

\* a rollback that is forgotten: the uncommitted writes stay on the connection
RollbackOlvidado(pending) == pending

\* pool.rollback(): what is left of the connection's uncommitted writes
Rollback(pending) == {}

\* an except clause of the insert block that swallows the exception
InsertExceptTragado == "upd_exec"

\* the except clause of the insert block ends in `raise`
InsertExceptPc == "ins_raised"

\* the except clause of actualizar_estado_caso ends in `raise`
UpdateExceptPc == "ins_raised"

\* insertar_resultados_riesgos returning right after its insert block
PcSinActualizar == "ins_ret"

\* where insertar_resultados_riesgos goes after its insert block
PcAfterInsertCommit == "upd_exec"

\* UPDATE ... SET "ESTADO" = 'RIESGOS IDENTIFICADOS' WHERE "CASO_ID" = :caso_id
UpdateEstado(tabla, ids) ==
    [c \in DOMAIN tabla |->
        IF c \in ids THEN [tabla[c] EXCEPT !.ESTADO = RIESGOS_IDENTIFICADOS]
        ELSE tabla[c]]

----------------------------------------------------------------------------
(* Helpers of the orchestrators: src/helpers/obtener_info_riesgos.py *)

Absent == "<absent>"

\* placeholders = {'consecutivo': consecutivo}
PlaceholdersIniciales == [consecutivo |-> Request.consecutivo]

\* str(value) of a placeholder value, as str.format renders it
StrDe(nombre, valor) ==
    IF nombre = "consecutivo" THEN ToString(valor)
    ELSE IF valor = Null THEN "None" ELSE valor

\* A template is the text of a configuration string cut in tokens:
\* "lit" literal text, "campo" a replacement field {name}, "mal" a single '{'.
Lit(t) == [k |-> "lit", v |-> t]
Campo(n) == [k |-> "campo", v |-> n]
Mal == [k |-> "mal", v |-> "{"]

TokenTexto(tok) == IF tok.k = "campo" THEN "{" \o tok.v \o "}" ELSE tok.v

RECURSIVE Texto(_)
\* the configuration string itself
Texto(tpl) == IF tpl = <<>> THEN "" ELSE TokenTexto(tpl[1]) \o Texto(Tail(tpl))

RECURSIVE StrFormat(_, _)
\* obj.format(**placeholders), left to right: the text, or the exception of
\* the first field that fails
StrFormat(tpl, ph) ==
    IF tpl = <<>> THEN [exc |-> NoError, txt |-> ""]
    ELSE LET tok == tpl[1]
         IN  IF tok.k = "mal" THEN [exc |-> "ValueError", txt |-> ""]
             ELSE IF tok.k = "campo" /\ tok.v \notin DOMAIN ph
                  THEN [exc |-> "KeyError", txt |-> ""]
             ELSE LET resto == StrFormat(Tail(tpl), ph)
                      aqui == IF tok.k = "campo" THEN StrDe(tok.v, ph[tok.v]) ELSE tok.v
                  IN  IF resto.exc # NoError THEN resto
                      ELSE [exc |-> NoError, txt |-> aqui \o resto.txt]

\* _format_values on a string: KeyError gives the string back, any other
\* exception goes on
_format_values(tpl, ph) ==
    LET f == StrFormat(tpl, ph)
    IN  IF f.exc = "KeyError" THEN [exc |-> NoError, txt |-> Texto(tpl)] ELSE f

\* The decoded body of a response, or Ninguna for "no result" (None).
Ninguna == [kind |-> "none", id |-> Absent, adjunto |-> Absent]

Cuerpos ==
    [kind : {"dict"}, id : {Absent, "X"}, adjunto : {Absent, "QUJD", "Q"}]
    \cup {[kind |-> "list", id |-> Absent, adjunto |-> Absent]}

Respuestas == {Ninguna} \cup Cuerpos

\* bool(resultado_api): None and the empty dict are false
CuerpoTruthy(b) ==
    \/ b.kind = "list"
    \/ b.kind = "dict" /\ (b.id # Absent \/ b.adjunto # Absent)

ExprId == "result['id']"
ExprGet == "result.get('id', 'NA')"

\* _safe_eval_extraction(expression, result)
_safe_eval_extraction(expression, result) ==
    IF ~PyTruthy(expression) THEN Null
    ELSE IF expression = ExprId /\ result.kind = "dict" /\ result.id # Absent
         THEN result.id
    ELSE IF expression = ExprGet /\ result.kind = "dict"
         THEN IF result.id # Absent THEN result.id ELSE "NA"
    ELSE Null

\* base64.b64decode of the texts the model uses; Null where it raises
B64Decode(t) == IF t = "QUJD" THEN "ABC" ELSE Null

\* _excel_bytes_from_result(result_json), of a dict
_excel_bytes_from_result(result_json) ==
    IF result_json.adjunto # Absent /\ PyTruthy(result_json.adjunto)
    THEN B64Decode(result_json.adjunto)
    ELSE Null

\* the lookup without its "ESTADO" = 'PENDIENTE' condition
obtener_caso_id_sin_estado(tabla) ==
    LET ids == {c \in DOMAIN tabla : tabla[c].CANAL_ID = Request.consecutivo}
    IN  IF ids = {} THEN NoCaso ELSE CHOOSE c \in ids : \A d \in ids : d <= c

\* obtener_caso_id_por_consecutivo: MAX("CASO_ID") of the pending cases of the
\* request's key (CANAL_ID stands for the whole key tuple)
obtener_caso_id_por_consecutivo(tabla) ==
    LET ids == {c \in DOMAIN tabla :
                   tabla[c].CANAL_ID = Request.consecutivo /\ tabla[c].ESTADO = PENDIENTE}
    IN  IF ids = {} THEN NoCaso ELSE CHOOSE c \in ids : \A d \in ids : d <= c

\* the rows of the configuration with one FUENTE, in order
FilasDe(c, nombre) == SelectSeq(c, LAMBDA f : f.FUENTE = nombre)

----------------------------------------------------------------------------
(* insertar_resultados_riesgos and actualizar_estado_caso, step by step *)

\* pool.commit(): every uncommitted write of the connection becomes visible
Commit ==
    /\ resultados' = resultados \cup txn
    /\ estados' = UpdateEstado(estados, upd)
    /\ written' = written \cup (txn \ resultados)
    /\ txn' = {}
    /\ upd' = {}

\* the except clauses: pool.rollback(), then the exception goes on
Except(nextpc) ==
    /\ txn' = Rollback(txn)
    /\ upd' = Rollback(upd)
    /\ error' = "DBError"
    /\ pc' = nextpc
    /\ UNCHANGED <<resultados, estados, written>>

\* an early return that is missing: the empty list goes on to the status update
InsertarVacioActualiza ==
    /\ pc = "ins_begin"
    /\ riesgos = <<>>
    /\ pc' = "upd_exec"
    /\ UNCHANGED <<orqvars, ret, dbvars>>

\* `if not riesgos: return`
InsertarVacio ==
    /\ pc = "ins_begin"
    /\ riesgos = <<>>
    /\ pc' = "ins_ret"
    /\ UNCHANGED <<orqvars, ret, dbvars>>

\* the loop that builds registros_a_insertar raises at int(numero_documento)
InsertarValueError ==
    /\ pc = "ins_begin"
    /\ riesgos # <<>>
    /\ RegistrosRaise(riesgos)
    /\ error' = "ValueError"
    /\ pc' = "ins_raised"
    /\ UNCHANGED <<orqvars, ret, riesgos, caso_id, registros, idx, txn, upd, resultados,
                   estados, ncalls, ins_committed, written, pre_estado,
                   upd_executed>>

\* the loop builds registros_a_insertar
InsertarPreparar ==
    /\ pc = "ins_begin"
    /\ riesgos # <<>>
    /\ ~RegistrosRaise(riesgos)
    /\ registros' = RegistrosAInsertar(caso_id, riesgos)
    /\ idx' = 1
    /\ pc' = "ins_exec"
    /\ UNCHANGED <<orqvars, ret, riesgos, caso_id, txn, upd, resultados, estados, error,
                   ncalls, ins_committed, written, pre_estado, upd_executed>>

\* pool.execute(query, registros_a_insertar): one row of the executemany
InsertExecRow ==
    /\ pc = "ins_exec"
    /\ idx <= Len(registros)
    /\ LET r == InsertOnConflictDoNothing(resultados \cup txn, registros[idx])
       IN  IF r.violation
           THEN /\ txn' = Rollback(txn)
                /\ upd' = Rollback(upd)
                /\ error' = "UniqueViolation"
                /\ pc' = InsertExceptPc
                /\ idx' = idx
           ELSE /\ txn' = r.rows \ resultados
                /\ idx' = idx + 1
                /\ pc' = IF idx = Len(registros) THEN "ins_commit" ELSE "ins_exec"
                /\ UNCHANGED <<upd, error>>
    /\ UNCHANGED <<orqvars, ret, riesgos, caso_id, registros, resultados, estados, ncalls,
                   ins_committed, written, pre_estado, upd_executed>>

\* pool.execute of the insert fails (connection lost, constraint, ...)
InsertExecFail ==
    /\ pc = "ins_exec"
    /\ Except(InsertExceptPc)
    /\ UNCHANGED <<orqvars, ret, riesgos, caso_id, registros, idx, ncalls, ins_committed,
                   pre_estado, upd_executed>>

\* pool.commit() of the insert
InsertCommit ==
    /\ pc = "ins_commit"
    /\ Commit
    /\ ins_committed' = TRUE
    /\ pc' = PcAfterInsertCommit
    /\ UNCHANGED <<orqvars, ret, riesgos, caso_id, registros, idx, error, ncalls, pre_estado, upd_executed>>

\* pool.commit() of the insert fails
InsertCommitFail ==
    /\ pc = "ins_commit"
    /\ Except(InsertExceptPc)
    /\ UNCHANGED <<orqvars, ret, riesgos, caso_id, registros, idx, ncalls, ins_committed,
                   pre_estado, upd_executed>>

\* actualizar_estado_caso: pool.execute(query, params)
UpdateExec ==
    /\ pc = "upd_exec"
    /\ upd' = upd \cup {caso_id}
    /\ upd_executed' = TRUE
    /\ pc' = "upd_commit"
    /\ UNCHANGED <<orqvars, ret, riesgos, caso_id, registros, idx, txn, resultados, estados,
                   error, ncalls, ins_committed, written, pre_estado>>

\* actualizar_estado_caso: pool.execute fails
UpdateExecFail ==
    /\ pc = "upd_exec"
    /\ Except(UpdateExceptPc)
    /\ UNCHANGED <<orqvars, ret, riesgos, caso_id, registros, idx, ncalls, ins_committed,
                   pre_estado, upd_executed>>

\* actualizar_estado_caso: pool.commit(), and both functions return
UpdateCommit ==
    /\ pc = "upd_commit"
    /\ Commit
    /\ pc' = "ins_ret"
    /\ UNCHANGED <<orqvars, ret, riesgos, caso_id, registros, idx, error, ncalls,
                   ins_committed, pre_estado, upd_executed>>

\* actualizar_estado_caso: pool.commit() fails
UpdateCommitFail ==
    /\ pc = "upd_commit"
    /\ Except(UpdateExceptPc)
    /\ UNCHANGED <<orqvars, ret, riesgos, caso_id, registros, idx, ncalls, ins_committed,
                   pre_estado, upd_executed>>

\* the steps of a call whose list of risks is not empty
PersistirLista ==
    \/ InsertarValueError
    \/ InsertarPreparar
    \/ InsertExecRow
    \/ InsertExecFail
    \/ InsertCommit
    \/ InsertCommitFail
    \/ UpdateExec
    \/ UpdateExecFail
    \/ UpdateCommit
    \/ UpdateCommitFail

Persistir == InsertarVacio \/ PersistirLista

\* what a caller of insertar_resultados_riesgos sets when it calls
Llamar(lista, caso, quien) ==
    /\ riesgos' = lista
    /\ caso_id' = caso
    /\ ret' = quien
    /\ registros' = <<>>
    /\ idx' = 1
    /\ error' = NoError
    /\ ncalls' = ncalls + 1
    /\ ins_committed' = FALSE
    /\ upd_executed' = FALSE
    /\ written' = {}
    /\ pre_estado' = estados[caso].ESTADO
    /\ pc' = "ins_begin"
    /\ UNCHANGED <<txn, upd, resultados, estados>>

----------------------------------------------------------------------------
(* The persistence routine called directly, several times on one store *)

EstadosIniciales ==
    [c \in CasoIds |-> [ESTADO |-> PENDIENTE, CANAL_ID |-> Request.consecutivo]]

\* TIPO_PRODUCTO as a text is the sequence of its characters; no response yet
SinRespuesta == 0
\* no helper function is called alone
SinHelper == <<>>

ApiInactiva == [tipo |-> <<>>, status |-> SinRespuesta, mensaje |-> Null]

\* no call of the persistence routine has been made on the connection
SinLlamadas ==
    /\ riesgos = <<>>
    /\ caso_id = NoCaso
    /\ registros = <<>>
    /\ idx = 1
    /\ txn = {}
    /\ upd = {}
    /\ resultados = {}
    /\ error = NoError
    /\ ncalls = 0
    /\ ins_committed = FALSE
    /\ written = {}
    /\ pre_estado = PENDIENTE
    /\ upd_executed = FALSE

\* the variables of the collective orchestrator before it runs
ColInactivo ==
    /\ i_fuente = 1
    /\ resultado_api = Ninguna
    /\ resp_lista = Ninguna
    /\ lista_de_riesgos = <<>>

\* the variables of the individual orchestrator before it runs
IndInactivo ==
    /\ variables_dict = <<>>
    /\ tareas = <<>>

InitDB ==
    /\ pc = "idle"
    /\ ret = "db"
    /\ SinLlamadas
    /\ estados = EstadosIniciales
    /\ cfg = <<>>
    /\ placeholders = PlaceholdersIniciales
    /\ calls = <<>>
    /\ retorno = <<>>
    /\ ColInactivo
    /\ IndInactivo
    /\ api = ApiInactiva
    /\ helper = SinHelper

\* a caller invokes insertar_resultados_riesgos(pool, riesgos, caso_id, ...)
DBCall ==
    /\ pc = "idle"
    /\ ret = "db"
    /\ ncalls < MaxCalls
    /\ \E lista \in ListasDeRiesgos, caso \in CasoIds : Llamar(lista, caso, "db")
    /\ UNCHANGED orqvars

\* the call is over (returned or raised): its frame is gone, the store stays
DBReturn ==
    /\ pc \in {"ins_ret", "ins_raised"}
    /\ ret = "db"
    /\ pc' = "idle"
    /\ riesgos' = <<>>
    /\ caso_id' = NoCaso
    /\ registros' = <<>>
    /\ idx' = 1
    /\ error' = NoError
    /\ ins_committed' = FALSE
    /\ upd_executed' = FALSE
    /\ written' = {}
    /\ pre_estado' = PENDIENTE
    /\ UNCHANGED <<orqvars, ret, txn, upd, resultados, estados, ncalls>>

NextDB == DBCall \/ DBReturn \/ Persistir

SpecDB == InitDB /\ [][NextDB]_vars

----------------------------------------------------------------------------
(* obtener_info_riesgos_colectiva *)

LIST_DOCUMENTOS == "FILENET_LIST_DOCUMENTOS"
GET_DOCUMENTO == "FILENET_GET_DOCUMENTO"

\* the two sources taken in the opposite order
fuentes_al_reves == <<GET_DOCUMENTO, LIST_DOCUMENTOS>>

\* a list where the first source is taken again after its call
fuentes_repetidas == <<LIST_DOCUMENTOS, LIST_DOCUMENTOS>>

fuentes_en_orden == <<LIST_DOCUMENTOS, GET_DOCUMENTO>>

UrlLista == <<Lit("/list/"), Campo("consecutivo")>>
UrlDocumento == <<Lit("/doc/"), Campo("id_doc_lista_riesgos")>>
UrlMal == <<Lit("/x/"), Mal>>
UrlOtra == <<Lit("/otra/"), Campo("consecutivo")>>

\* The configuration rows a collective case can hold (FUENTE already stripped).
FilasLista ==
    [FUENTE : {LIST_DOCUMENTOS}, VARIABLE_ : {"ID_DOC_LISTA_RIESGOS", "OTRA"},
     EXTRACCION : {"", ExprId}, PROMPT : {Null}, URL : {UrlLista, UrlMal}]

FilasDocumento ==
    [FUENTE : {GET_DOCUMENTO}, VARIABLE_ : {Null}, EXTRACCION : {Null},
     PROMPT : {Null, "P"}, URL : {UrlDocumento, UrlMal}]

\* a row of a source outside the two names, as adverse as a row can be: it
\* declares the id variable with an extraction and carries a prompt
FilasOtras ==
    [FUENTE : {"OTRA_FUENTE"}, VARIABLE_ : {"ID_DOC_LISTA_RIESGOS"},
     EXTRACCION : {ExprId}, PROMPT : {"P"}, URL : {UrlOtra}]

FilasCol == FilasLista \cup FilasDocumento \cup FilasOtras

ConfigsCol == UNION {[1..n -> FilasCol] : n \in 1..MaxFilas}

\* The stores a request can find: case 1 belongs to the request and is pending
\* or done, case 2 is pending and belongs to this request or to another.
EstadosCol ==
    {[c \in CasoIds |->
        IF c = 1 THEN [ESTADO |-> e, CANAL_ID |-> Request.consecutivo]
        ELSE [ESTADO |-> PENDIENTE, CANAL_ID |-> canal]] :
     e \in {PENDIENTE, RIESGOS_IDENTIFICADOS},
     canal \in {Request.consecutivo, Request.consecutivo + 1}}

\* what _procesar_con_gemini hands back: <<>> for None, <<lista>> for a list
RiesgosGemini ==
    [TIPO_DOCUMENTO : {"CC"}, NUMERO_DOCUMENTO : {"123", "X1"}, PLACA : {Null}]

ResultadosGemini ==
    {<<>>} \cup {<<l>> : l \in UNION {[1..n -> RiesgosGemini] : n \in 0..MaxRiesgos}}

nombre_fuente == fuentes_en_orden[i_fuente]

\* the first row of the whole configuration, whatever its source
config_api_sin_filtrar == cfg[1]

\* config_api = df_config_fuente.iloc[0]
config_api == FilasDe(cfg, nombre_fuente)[1]

\* the extracted id stored under the name of the variable instead
ConIdOtraClave(ph, valor) ==
    [n \in DOMAIN ph \cup {"ID_DOC_LISTA_RIESGOS"} |->
        IF n = "ID_DOC_LISTA_RIESGOS" THEN valor ELSE ph[n]]

\* placeholders['id_doc_lista_riesgos'] = valor
ConId(ph, valor) ==
    [n \in DOMAIN ph \cup {"id_doc_lista_riesgos"} |->
        IF n = "id_doc_lista_riesgos" THEN valor ELSE ph[n]]

\* the LIST step: what the mapping is after the response
TrasLista(ph, fila, resultado) ==
    IF fila.VARIABLE_ = "ID_DOC_LISTA_RIESGOS" /\ PyTruthy(fila.EXTRACCION)
    THEN ConId(ph, _safe_eval_extraction(fila.EXTRACCION, resultado))
    ELSE ph

\* where the loop goes when a source yields no result: `continue`
PcSinResultado == "col_loop"

InitCol ==
    /\ pc = "col_loop"
    /\ ret = "col"
    /\ SinLlamadas
    /\ estados \in EstadosCol
    /\ cfg \in ConfigsCol
    /\ placeholders = PlaceholdersIniciales
    /\ calls = <<>>
    /\ retorno = <<>>
    /\ ColInactivo
    /\ IndInactivo
    /\ api = ApiInactiva
    /\ helper = SinHelper

\* the loop is over: return {"riesgos": []}
ColFin ==
    /\ pc = "col_loop"
    /\ i_fuente > Len(fuentes_en_orden)
    /\ retorno' = << <<>> >>
    /\ pc' = "col_ret"
    /\ UNCHANGED <<ret, dbvars, cfg, api, helper, placeholders, calls, colvars, indvars>>

\* `if df_config_fuente.empty: continue`
ColSinConfig ==
    /\ pc = "col_loop"
    /\ i_fuente <= Len(fuentes_en_orden)
    /\ FilasDe(cfg, nombre_fuente) = <<>>
    /\ i_fuente' = i_fuente + 1
    /\ UNCHANGED <<pc, ret, dbvars, cfg, api, helper, placeholders, calls, retorno,
                   resultado_api, resp_lista, lista_de_riesgos, indvars>>

\* _request_por_fuente builds the request and awaits session.request
ColRequest ==
    /\ pc = "col_loop"
    /\ i_fuente <= Len(fuentes_en_orden)
    /\ FilasDe(cfg, nombre_fuente) # <<>>
    /\ LET f == _format_values(config_api.URL, placeholders)
       IN  /\ f.exc = NoError
           /\ calls' = Append(calls, [fuente |-> nombre_fuente,
                                      placeholders |-> placeholders, url |-> f.txt])
    /\ pc' = "col_wait"
    /\ UNCHANGED <<ret, dbvars, cfg, api, helper, placeholders, retorno, colvars, indvars>>

\* _request_por_fuente raises while it formats the request, before its try
ColRequestRaise ==
    /\ pc = "col_loop"
    /\ i_fuente <= Len(fuentes_en_orden)
    /\ FilasDe(cfg, nombre_fuente) # <<>>
    /\ _format_values(config_api.URL, placeholders).exc # NoError
    /\ error' = _format_values(config_api.URL, placeholders).exc
    /\ pc' = "raised"
    /\ UNCHANGED <<ret, riesgos, caso_id, registros, idx, txn, upd, resultados,
                   estados, ncalls, ins_committed, written, pre_estado,
                   upd_executed, orqvars>>

\* the request yields None or an empty body: `if not resultado_api: continue`
ColSinResultado ==
    /\ pc = "col_wait"
    /\ \E r \in Respuestas :
          /\ ~CuerpoTruthy(r)
          /\ resultado_api' = r
          /\ resp_lista' = IF nombre_fuente = LIST_DOCUMENTOS THEN r ELSE resp_lista
    /\ i_fuente' = i_fuente + 1
    /\ pc' = PcSinResultado
    /\ UNCHANGED <<ret, dbvars, cfg, api, helper, placeholders, calls, retorno,
                   lista_de_riesgos, indvars>>

\* the list-documents response: the extracted id goes into the mapping
ColLista ==
    /\ pc = "col_wait"
    /\ nombre_fuente = LIST_DOCUMENTOS
    /\ \E r \in Respuestas :
          /\ CuerpoTruthy(r)
          /\ resultado_api' = r
          /\ resp_lista' = r
          /\ placeholders' = TrasLista(placeholders, config_api, r)
    /\ i_fuente' = i_fuente + 1
    /\ pc' = "col_loop"
    /\ UNCHANGED <<ret, dbvars, cfg, api, helper, calls, retorno, lista_de_riesgos, indvars>>

\* the get-document response with no prompt on the row, or with no attachment
\* that decodes: nothing more is done with it
ColDocumentoSinProceso ==
    /\ pc = "col_wait"
    /\ nombre_fuente = GET_DOCUMENTO
    /\ \E r \in Respuestas :
          /\ CuerpoTruthy(r)
          /\ \/ ~PyTruthy(config_api.PROMPT)
             \/ r.kind = "dict" /\ ~PyTruthy(_excel_bytes_from_result(r))
          /\ resultado_api' = r
    /\ i_fuente' = i_fuente + 1
    /\ pc' = "col_loop"
    /\ UNCHANGED <<ret, dbvars, cfg, api, helper, placeholders, calls, retorno, resp_lista,
                   lista_de_riesgos, indvars>>

\* the get-document response is not a dict: result_json.get raises
ColDocumentoAttributeError ==
    /\ pc = "col_wait"
    /\ nombre_fuente = GET_DOCUMENTO
    /\ PyTruthy(config_api.PROMPT)
    /\ \E r \in Respuestas :
          /\ CuerpoTruthy(r)
          /\ r.kind # "dict"
          /\ resultado_api' = r
    /\ error' = "AttributeError"
    /\ pc' = "raised"
    /\ UNCHANGED <<ret, riesgos, caso_id, registros, idx, txn, upd, resultados,
                   estados, ncalls, ins_committed, written, pre_estado,
                   upd_executed, cfg, api, helper, placeholders, calls, retorno, i_fuente,
                   resp_lista, lista_de_riesgos, indvars>>

\* the get-document response carries an attachment: await _procesar_con_gemini
ColDocumentoAGemini ==
    /\ pc = "col_wait"
    /\ nombre_fuente = GET_DOCUMENTO
    /\ PyTruthy(config_api.PROMPT)
    /\ \E r \in Respuestas :
          /\ CuerpoTruthy(r)
          /\ r.kind = "dict"
          /\ PyTruthy(_excel_bytes_from_result(r))
          /\ resultado_api' = r
    /\ pc' = "col_gemini"
    /\ UNCHANGED <<ret, dbvars, cfg, api, helper, placeholders, calls, retorno, i_fuente,
                   resp_lista, lista_de_riesgos, indvars>>

\* _procesar_con_gemini returns None
ColGeminiNone ==
    /\ pc = "col_gemini"
    /\ lista_de_riesgos' = <<>>
    /\ i_fuente' = i_fuente + 1
    /\ pc' = "col_loop"
    /\ UNCHANGED <<ret, dbvars, cfg, api, helper, placeholders, calls, retorno, resultado_api,
                   resp_lista, indvars>>

\* _procesar_con_gemini returns a list: await obtener_caso_id_por_consecutivo
ColGeminiLista ==
    /\ pc = "col_gemini"
    /\ \E g \in ResultadosGemini : g # <<>> /\ lista_de_riesgos' = g
    /\ pc' = "col_caso"
    /\ UNCHANGED <<ret, dbvars, cfg, api, helper, placeholders, calls, retorno, i_fuente,
                   resultado_api, resp_lista, indvars>>

\* the case is found: await insertar_resultados_riesgos
ColPersistir ==
    /\ pc = "col_caso"
    /\ obtener_caso_id_por_consecutivo(estados) # NoCaso
    /\ Llamar(lista_de_riesgos[1], obtener_caso_id_por_consecutivo(estados), "col")
    /\ UNCHANGED orqvars

\* no pending case: return {"riesgos": lista_de_riesgos}
ColSinCaso ==
    /\ pc = "col_caso"
    /\ obtener_caso_id_por_consecutivo(estados) = NoCaso
    /\ retorno' = <<lista_de_riesgos[1]>>
    /\ pc' = "col_ret"
    /\ UNCHANGED <<ret, dbvars, cfg, api, helper, placeholders, calls, colvars, indvars>>

\* the query of obtener_caso_id_por_consecutivo raises
ColCasoIdFail ==
    /\ pc = "col_caso"
    /\ error' = "DBError"
    /\ pc' = "raised"
    /\ UNCHANGED <<ret, riesgos, caso_id, registros, idx, txn, upd, resultados,
                   estados, ncalls, ins_committed, written, pre_estado,
                   upd_executed, orqvars>>

\* insertar_resultados_riesgos returned: return {"riesgos": lista_de_riesgos}
ColTrasInsertar ==
    /\ pc = "ins_ret"
    /\ ret = "col"
    /\ retorno' = <<lista_de_riesgos[1]>>
    /\ pc' = "col_ret"
    /\ UNCHANGED <<ret, dbvars, cfg, api, helper, placeholders, calls, colvars, indvars>>

\* insertar_resultados_riesgos raised: nothing catches it in the orchestrator
ColPropaga ==
    /\ pc = "ins_raised"
    /\ ret = "col"
    /\ pc' = "raised"
    /\ UNCHANGED <<ret, dbvars, orqvars>>

NextCol ==
    \/ ColFin
    \/ ColSinConfig
    \/ ColRequest
    \/ ColRequestRaise
    \/ ColSinResultado
    \/ ColLista
    \/ ColDocumentoSinProceso
    \/ ColDocumentoAttributeError
    \/ ColDocumentoAGemini
    \/ ColGeminiNone
    \/ ColGeminiLista
    \/ ColPersistir
    \/ ColSinCaso
    \/ ColCasoIdFail
    \/ ColTrasInsertar
    \/ ColPropaga
    \/ Persistir

SpecCol == InitCol /\ [][NextCol]_vars

\* every await of the orchestrator ends: the HTTP client has a timeout and the
\* database and the adapter answer or raise
SpecColFair == SpecCol /\ WF_vars(NextCol)

----------------------------------------------------------------------------
(* obtener_info_riesgo_individual *)

Fuentes == {"F1", "F2", "F3"}
VariablesInd == {"NUMERO_DOCUMENTO", "PLACA"}

\* The configuration rows an individual case can hold.
FilasInd ==
    [FUENTE : Fuentes, VARIABLE_ : VariablesInd, EXTRACCION : {"", ExprId},
     PROMPT : {Null}, URL : {UrlLista, UrlMal}]

ConfigsInd == UNION {[1..n -> FilasInd] : n \in 1..MaxFilas}

\* The stores a request can find: its case 1 is pending or already done;
\* case 2 belongs to another request.
EstadosInd ==
    {[c \in CasoIds |->
        IF c = 1 THEN [ESTADO |-> e, CANAL_ID |-> Request.consecutivo]
        ELSE [ESTADO |-> PENDIENTE, CANAL_ID |-> Request.consecutivo + 1]] :
     e \in {PENDIENTE, RIESGOS_IDENTIFICADOS}}

\* what a source answers: None, {}, {'id': '123'}, {'id': 'X1'}, a list
RespuestasInd ==
    {Ninguna, [kind |-> "list", id |-> Absent, adjunto |-> Absent]}
    \cup [kind : {"dict"}, id : {Absent, "123", "X1"}, adjunto : {Absent}]

\* df_info_riesgos.groupby('FUENTE'): the keys of the groups
Grupos(c) == {c[i].FUENTE : i \in 1..Len(c)}

\* df_info_riesgos['VARIABLE'].unique()
VariablesDe(c) == {c[i].VARIABLE_ : i \in 1..Len(c)}

\* a coroutine of `tasks` that has not run yet
TareaNueva == [st |-> "init", resp |-> Ninguna]

RECURSIVE ExtraerSiNulo(_, _, _)
\* a loop that assigns only the variables that are still None
ExtraerSiNulo(vd, filas, resultado) ==
    IF filas = <<>> THEN vd
    ELSE LET fila == filas[1]
             valor == _safe_eval_extraction(fila.EXTRACCION, resultado)
         IN  ExtraerSiNulo(IF PyTruthy(fila.VARIABLE_) /\ PyTruthy(fila.EXTRACCION)
                              /\ vd[fila.VARIABLE_] = Null
                           THEN [vd EXCEPT ![fila.VARIABLE_] = valor]
                           ELSE vd,
                           Tail(filas), resultado)

RECURSIVE ExtraerATodas(_, _, _)
\* a loop that assigns the extracted value to every key of the record
ExtraerATodas(vd, filas, resultado) ==
    IF filas = <<>> THEN vd
    ELSE LET fila == filas[1]
             valor == _safe_eval_extraction(fila.EXTRACCION, resultado)
         IN  ExtraerATodas(IF PyTruthy(fila.VARIABLE_) /\ PyTruthy(fila.EXTRACCION)
                           THEN [k \in DOMAIN vd |-> valor]
                           ELSE vd,
                           Tail(filas), resultado)

RECURSIVE Extraer(_, _, _)
\* the loop over df_config.iterrows(): a row with a variable and an extraction
\* assigns variables_dict[variable]
Extraer(vd, filas, resultado) ==
    IF filas = <<>> THEN vd
    ELSE LET fila == filas[1]
             valor == _safe_eval_extraction(fila.EXTRACCION, resultado)
         IN  Extraer(IF PyTruthy(fila.VARIABLE_) /\ PyTruthy(fila.EXTRACCION)
                     THEN [vd EXCEPT ![fila.VARIABLE_] = valor]
                     ELSE vd,
                     Tail(filas), resultado)

\* riesgo.get(campo) of the merged record
Get(vd, campo) == IF campo \in DOMAIN vd THEN vd[campo] ELSE Null

\* the fields of the merged record that insertar_resultados_riesgos reads
RiesgoDe(vd) ==
    [TIPO_DOCUMENTO |-> Get(vd, "TIPO_DOCUMENTO"),
     NUMERO_DOCUMENTO |-> Get(vd, "NUMERO_DOCUMENTO"),
     PLACA |-> Get(vd, "PLACA")]

\* a gather without return_exceptions: the first exception of a task leaves it
PcTareaSinAislar == "raised"

\* asyncio.gather(*tasks, return_exceptions=True): an exception of a task is
\* kept as its result and the orchestrator stays in the gather
PcTareaExcepcion == "ind_gather"

\* a wait that ends with the first task that ends
AlgunaTerminada == \E g \in DOMAIN tareas : tareas[g].st \in {"done", "exc"}

\* every task of the gather has ended
TareasTerminadas == \A g \in DOMAIN tareas : tareas[g].st \in {"done", "exc"}

InitInd ==
    /\ pc = "ind_gather"
    /\ ret = "ind"
    /\ SinLlamadas
    /\ estados \in EstadosInd
    /\ cfg \in ConfigsInd
    /\ placeholders = PlaceholdersIniciales
    /\ calls = <<>>
    /\ retorno = <<>>
    /\ ColInactivo
    /\ variables_dict = [v \in VariablesDe(cfg) |-> Null]
    /\ tareas = [g \in Grupos(cfg) |-> TareaNueva]
    /\ api = ApiInactiva
    /\ helper = SinHelper

\* a task starts: _request_por_fuente builds the request from the first row of
\* the group and awaits session.request
IndTareaRequest(g) ==
    /\ pc = "ind_gather"
    /\ g \in DOMAIN tareas
    /\ tareas[g].st = "init"
    /\ _format_values(FilasDe(cfg, g)[1].URL, placeholders).exc = NoError
    /\ tareas' = [tareas EXCEPT ![g].st = "wait"]
    /\ UNCHANGED <<pc, ret, dbvars, cfg, api, helper, placeholders, calls, retorno, colvars,
                   variables_dict>>

\* a task starts and _request_por_fuente raises while it formats the request:
\* the task ends with the exception
IndTareaRaise(g) ==
    /\ pc = "ind_gather"
    /\ g \in DOMAIN tareas
    /\ tareas[g].st = "init"
    /\ _format_values(FilasDe(cfg, g)[1].URL, placeholders).exc # NoError
    /\ tareas' = [tareas EXCEPT ![g].st = "exc"]
    /\ pc' = PcTareaExcepcion
    /\ UNCHANGED <<ret, dbvars, cfg, api, helper, placeholders, calls, retorno, colvars,
                   variables_dict>>

\* the request of a task yields None or an empty body: `if resultado_api` is
\* false and the task ends
IndTareaSinResultado(g) ==
    /\ pc = "ind_gather"
    /\ g \in DOMAIN tareas
    /\ tareas[g].st = "wait"
    /\ \E r \in RespuestasInd :
          /\ ~CuerpoTruthy(r)
          /\ tareas' = [tareas EXCEPT ![g] = [st |-> "done", resp |-> r]]
    /\ UNCHANGED <<pc, ret, dbvars, cfg, api, helper, placeholders, calls, retorno, colvars,
                   variables_dict>>

\* the request of a task yields a body: the rows of the group are extracted
\* into variables_dict, with no await in between
IndTareaExtrae(g) ==
    /\ pc = "ind_gather"
    /\ g \in DOMAIN tareas
    /\ tareas[g].st = "wait"
    /\ \E r \in RespuestasInd :
          /\ CuerpoTruthy(r)
          /\ tareas' = [tareas EXCEPT ![g] = [st |-> "done", resp |-> r]]
          /\ variables_dict' = Extraer(variables_dict, FilasDe(cfg, g), r)
    /\ UNCHANGED <<pc, ret, dbvars, cfg, api, helper, placeholders, calls, retorno, colvars>>

\* the gather returns: riesgos_a_insertar = [variables_dict], then
\* await obtener_caso_id_por_consecutivo
IndAgregar ==
    /\ pc = "ind_gather"
    /\ TareasTerminadas
    /\ pc' = "ind_caso"
    /\ UNCHANGED <<ret, dbvars, orqvars>>

\* the case is found: await insertar_resultados_riesgos; the results of the
\* gather were not kept
IndPersistir ==
    /\ pc = "ind_caso"
    /\ obtener_caso_id_por_consecutivo(estados) # NoCaso
    /\ Llamar(<<RiesgoDe(variables_dict)>>, obtener_caso_id_por_consecutivo(estados), "ind")
    /\ tareas' = <<>>
    /\ UNCHANGED <<cfg, api, helper, placeholders, calls, retorno, colvars, variables_dict>>

\* no pending case: return {"riesgos": [variables_dict]}
IndSinCaso ==
    /\ pc = "ind_caso"
    /\ obtener_caso_id_por_consecutivo(estados) = NoCaso
    /\ retorno' = << <<variables_dict>> >>
    /\ tareas' = <<>>
    /\ pc' = "ind_ret"
    /\ UNCHANGED <<ret, dbvars, cfg, api, helper, placeholders, calls, colvars, variables_dict>>

\* the query of obtener_caso_id_por_consecutivo raises
IndCasoIdFail ==
    /\ pc = "ind_caso"
    /\ error' = "DBError"
    /\ tareas' = <<>>
    /\ pc' = "raised"
    /\ UNCHANGED <<ret, riesgos, caso_id, registros, idx, txn, upd, resultados,
                   estados, ncalls, ins_committed, written, pre_estado,
                   upd_executed, cfg, api, helper, placeholders, calls, retorno, colvars,
                   variables_dict>>

\* insertar_resultados_riesgos returned: return {"riesgos": [variables_dict]}
IndTrasInsertar ==
    /\ pc = "ins_ret"
    /\ ret = "ind"
    /\ retorno' = << <<variables_dict>> >>
    /\ pc' = "ind_ret"
    /\ UNCHANGED <<ret, dbvars, cfg, api, helper, placeholders, calls, colvars, indvars>>

\* insertar_resultados_riesgos raised: nothing catches it in the orchestrator
IndPropaga ==
    /\ pc = "ins_raised"
    /\ ret = "ind"
    /\ pc' = "raised"
    /\ UNCHANGED <<ret, dbvars, orqvars>>

NextInd ==
    \/ \E g \in Fuentes : IndTareaRequest(g)
    \/ \E g \in Fuentes : IndTareaRaise(g)
    \/ \E g \in Fuentes : IndTareaSinResultado(g)
    \/ \E g \in Fuentes : IndTareaExtrae(g)
    \/ IndAgregar
    \/ IndPersistir
    \/ IndSinCaso
    \/ IndCasoIdFail
    \/ IndTrasInsertar
    \/ IndPropaga
    \/ PersistirLista

SpecInd == InitInd /\ [][NextInd]_vars

\* Configurations whose rows extract with a default: result.get('id', 'NA')
FilasGet ==
    [FUENTE : {"F1", "F2"}, VARIABLE_ : VariablesInd, EXTRACCION : {ExprGet},
     PROMPT : {Null}, URL : {UrlLista, UrlMal}]

ConfigsGet == UNION {[1..n -> FilasGet] : n \in 1..MaxFilas}

InitIndGet ==
    /\ pc = "ind_gather"
    /\ ret = "ind"
    /\ SinLlamadas
    /\ estados \in EstadosInd
    /\ cfg \in ConfigsGet
    /\ api = ApiInactiva
    /\ helper = SinHelper
    /\ placeholders = PlaceholdersIniciales
    /\ calls = <<>>
    /\ retorno = <<>>
    /\ ColInactivo
    /\ variables_dict = [v \in VariablesDe(cfg) |-> Null]
    /\ tareas = [g \in Grupos(cfg) |-> TareaNueva]

SpecIndGet == InitIndGet /\ [][NextInd]_vars

----------------------------------------------------------------------------
(* api_obtener_info_riesgos: the endpoint of src/main.py *)

\* configuration rows of a request served by the endpoint
MaxFilasApi == 1

INDIVIDUAL == <<"I", "N", "D", "I", "V", "I", "D", "U", "A", "L">>
COLECTIVO == <<"C", "O", "L", "E", "C", "T", "I", "V", "O">>

Minusculas ==
    <<"a", "b", "c", "d", "e", "f", "g", "h", "i", "j", "k", "l", "m", "n", "o",
      "p", "q", "r", "s", "t", "u", "v", "w", "x", "y", "z">>
Mayusculas ==
    <<"A", "B", "C", "D", "E", "F", "G", "H", "I", "J", "K", "L", "M", "N", "O",
      "P", "Q", "R", "S", "T", "U", "V", "W", "X", "Y", "Z">>
Blancos == {" ", "\t"}

\* str.upper(), character by character
Upper(s) ==
    [i \in 1..Len(s) |->
        IF \E k \in 1..Len(Minusculas) : Minusculas[k] = s[i]
        THEN Mayusculas[CHOOSE k \in 1..Len(Minusculas) : Minusculas[k] = s[i]]
        ELSE s[i]]

RECURSIVE LStrip(_)
LStrip(s) == IF s # <<>> /\ s[1] \in Blancos THEN LStrip(Tail(s)) ELSE s

RECURSIVE RStrip(_)
RStrip(s) ==
    IF s # <<>> /\ s[Len(s)] \in Blancos THEN RStrip(SubSeq(s, 1, Len(s) - 1)) ELSE s

\* str.strip()
Strip(s) == RStrip(LStrip(s))

\* the type compared as it is stored
TipoSinNormalizar(s) == s

\* tipo_producto = df_info_riesgos['TIPO_PRODUCTO'].iloc[0].strip().upper()
tipo_producto(s) == Upper(Strip(s))

\* the values TIPO_PRODUCTO takes in the model
TiposCrudos ==
    {INDIVIDUAL,
     <<" ", "i", "n", "d", "i", "v", "i", "d", "u", "a", "l", "\t">>,
     COLECTIVO,
     <<"C", "o", "l", "e", "c", "t", "i", "v", "o", " ">>,
     <<"M", "I", "X", "T", "O">>,
     <<"C", "O", "L", "E", "C", "T", "I", "V", "A">>,
     <<" ">>}

\* df_info_riesgos as the endpoint receives it; <<>> is the empty DataFrame
ConfigsApi == UNION {[1..n -> FilasCol \cup FilasInd] : n \in 0..MaxFilasApi}

MensajeSinRiesgos == "No se encontró ningún riesgo con los parámetros proporcionados."

\* a response that never carries the message
SinMensaje(lista) == Null

\* `if not resultado.get("riesgos"): resultado["mensaje"] = ...`
MensajeDe(lista) == IF lista = <<>> THEN MensajeSinRiesgos ELSE Null

InitApi ==
    /\ pc = "api_begin"
    /\ ret = "api"
    /\ SinLlamadas
    /\ estados \in EstadosInd
    /\ cfg \in ConfigsApi
    /\ api \in [tipo : TiposCrudos, status : {SinRespuesta}, mensaje : {Null}]
    /\ helper = SinHelper
    /\ placeholders = PlaceholdersIniciales
    /\ calls = <<>>
    /\ retorno = <<>>
    /\ ColInactivo
    /\ IndInactivo

\* `if df_info_riesgos.empty: raise HTTPException(status_code=404, ...)`
ApiSinConfiguracion ==
    /\ pc = "api_begin"
    /\ cfg = <<>>
    /\ api' = [api EXCEPT !.status = 404]
    /\ pc' = "api_fin"
    /\ UNCHANGED <<ret, dbvars, cfg, helper, placeholders, calls, retorno, colvars,
                   indvars>>

\* `if tipo_producto == 'INDIVIDUAL'`: obtener_info_riesgo_individual begins
ApiIndividual ==
    /\ pc = "api_begin"
    /\ cfg # <<>>
    /\ tipo_producto(api.tipo) = INDIVIDUAL
    /\ ret' = "ind"
    /\ variables_dict' = [v \in VariablesDe(cfg) |-> Null]
    /\ tareas' = [g \in Grupos(cfg) |-> TareaNueva]
    /\ pc' = "ind_gather"
    /\ UNCHANGED <<dbvars, cfg, api, helper, placeholders, calls, retorno, colvars>>

\* `elif tipo_producto == 'COLECTIVO'`: obtener_info_riesgos_colectiva begins
ApiColectivo ==
    /\ pc = "api_begin"
    /\ cfg # <<>>
    /\ tipo_producto(api.tipo) = COLECTIVO
    /\ ret' = "col"
    /\ pc' = "col_loop"
    /\ UNCHANGED <<dbvars, orqvars>>

\* `else: raise HTTPException(status_code=400, ...)`
ApiTipoInvalido ==
    /\ pc = "api_begin"
    /\ cfg # <<>>
    /\ tipo_producto(api.tipo) \notin {INDIVIDUAL, COLECTIVO}
    /\ api' = [api EXCEPT !.status = 400]
    /\ pc' = "api_fin"
    /\ UNCHANGED <<ret, dbvars, cfg, helper, placeholders, calls, retorno, colvars,
                   indvars>>

\* the orchestrator returned: the message is added when there is no risk, and
\* the response is sent
ApiResponder ==
    /\ pc \in {"ind_ret", "col_ret"}
    /\ api' = [api EXCEPT !.status = 200, !.mensaje = MensajeDe(retorno[1])]
    /\ pc' = "api_fin"
    /\ UNCHANGED <<ret, dbvars, cfg, helper, placeholders, calls, retorno, colvars,
                   indvars>>

NextApi ==
    \/ ApiSinConfiguracion
    \/ ApiIndividual
    \/ ApiColectivo
    \/ ApiTipoInvalido
    \/ ApiResponder
    \/ NextCol
    \/ NextInd

SpecApi == InitApi /\ [][NextApi]_vars

----------------------------------------------------------------------------
(* _request_por_fuente called on one configuration row *)

\* the mappings a caller passes: the initial one, or with the extracted id
PlaceholdersPosibles ==
    {PlaceholdersIniciales} \cup {ConId(PlaceholdersIniciales, v) : v \in {Null, "X"}}

InitReq ==
    /\ pc = "req_begin"
    /\ ret = "req"
    /\ SinLlamadas
    /\ estados = EstadosIniciales
    /\ cfg \in {<<f>> : f \in FilasCol \cup FilasInd}
    /\ api = ApiInactiva
    /\ helper = SinHelper
    /\ placeholders \in PlaceholdersPosibles
    /\ calls = <<>>
    /\ retorno = <<>>
    /\ ColInactivo
    /\ IndInactivo

\* lines 184-194: the URL is formatted and session.request is awaited
ReqFormatear ==
    /\ pc = "req_begin"
    /\ LET f == _format_values(cfg[1].URL, placeholders)
       IN  /\ f.exc = NoError
           /\ calls' = <<[fuente |-> cfg[1].FUENTE, placeholders |-> placeholders,
                          url |-> f.txt]>>
    /\ pc' = "req_wait"
    /\ UNCHANGED <<ret, dbvars, cfg, api, helper, placeholders, retorno, colvars, indvars>>

\* lines 191-194 are before the `try`: an exception of the formatting leaves
\* the function
ReqFormatearRaise ==
    /\ pc = "req_begin"
    /\ _format_values(cfg[1].URL, placeholders).exc # NoError
    /\ error' = _format_values(cfg[1].URL, placeholders).exc
    /\ pc' = "raised"
    /\ UNCHANGED <<ret, riesgos, caso_id, registros, idx, txn, upd, resultados,
                   estados, ncalls, ins_committed, written, pre_estado,
                   upd_executed, orqvars>>

\* the response is a 2xx with a JSON body: return response.json()
ReqRespuesta ==
    /\ pc = "req_wait"
    /\ \E r \in Cuerpos : resultado_api' = r
    /\ pc' = "req_ret"
    /\ UNCHANGED <<ret, dbvars, cfg, api, helper, placeholders, calls, retorno, i_fuente,
                   resp_lista, lista_de_riesgos, indvars>>

\* transport error, timeout, non-2xx or undecodable body: `except Exception`
\* returns None
ReqFalla ==
    /\ pc = "req_wait"
    /\ resultado_api' = Ninguna
    /\ pc' = "req_ret"
    /\ UNCHANGED <<ret, dbvars, cfg, api, helper, placeholders, calls, retorno, i_fuente,
                   resp_lista, lista_de_riesgos, indvars>>

NextReq == ReqFormatear \/ ReqFormatearRaise \/ ReqRespuesta \/ ReqFalla

SpecReq == InitReq /\ [][NextReq]_vars

----------------------------------------------------------------------------
(* Properties of result persistence, checked under SpecDB *)

\* a call of the persistence routine is in progress or has just ended
EnLlamada == caso_id \in CasoIds

\* the call has ended, by return or by an exception
Terminada == pc \in {"ins_ret", "ins_raised"}

ClavesDeLaLlamada == {riesgo_motor_id(caso_id, riesgos[i]) : i \in 1..Len(riesgos)}

\* C4: persistence is idempotent on the dedup key: whatever was stored before
\* and however often a key is inserted, ms_resultados holds one row per
\* RIESGO_MOTOR_ID, a run over keys that are already stored raises no
\* duplicate-key error, and after a run that returns every key of its list
\* is stored.
C4_InsertIdempotent ==
    /\ \A r1, r2 \in resultados \cup txn :
          r1.RIESGO_MOTOR_ID = r2.RIESGO_MOTOR_ID => r1 = r2
    /\ error # "UniqueViolation"
    /\ (EnLlamada /\ pc = "ins_ret") => ClavesDeLaLlamada \subseteq Keys(resultados)

\* C4 witness: a second run whose keys were all stored already has returned
\* without an error and without writing a row.
C4_Witness ==
    /\ pc = "ins_ret"
    /\ ncalls = 2
    /\ riesgos # <<>>
    /\ ins_committed
    /\ written = {}
    /\ error = NoError
    /\ ClavesDeLaLlamada \subseteq Keys(resultados)

\* C5 as stated: the case status is advanced only by a call that newly
\* inserted at least one row.
C5_Original ==
    (EnLlamada /\ pre_estado = PENDIENTE
        /\ estados[caso_id].ESTADO = RIESGOS_IDENTIFICADOS) => written # {}

\* C5 amended: the status is advanced, and the status UPDATE executed, only by
\* a call whose insert was committed, whether or not a row was new; every call
\* with a non-empty list that returns has executed the UPDATE and leaves the
\* case in 'RIESGOS IDENTIFICADOS'.
C5_Amended ==
    /\ (EnLlamada /\ estados[caso_id].ESTADO # pre_estado) => ins_committed
    /\ upd_executed => ins_committed
    /\ (EnLlamada /\ pc = "ins_ret" /\ riesgos # <<>>) =>
          (upd_executed /\ estados[caso_id].ESTADO = RIESGOS_IDENTIFICADOS)

\* C5 witness: a call in which every record hit a stored key advanced the
\* case from PENDIENTE.
C5_Witness ==
    /\ EnLlamada
    /\ pc = "ins_ret"
    /\ riesgos # <<>>
    /\ written = {}
    /\ pre_estado = PENDIENTE
    /\ estados[caso_id].ESTADO = RIESGOS_IDENTIFICADOS

\* C7: a step advances a case from PENDIENTE to 'RIESGOS IDENTIFICADOS' only
\* for the case of the running persistence call, after that call's insert was
\* committed, with every key of the call stored.
C7_EstadoSoloTrasInsert ==
    [][\A c \in CasoIds :
          (estados[c].ESTADO = PENDIENTE /\ estados'[c].ESTADO = RIESGOS_IDENTIFICADOS)
            => /\ c = caso_id
               /\ ins_committed
               /\ pc = "upd_commit"
               /\ ClavesDeLaLlamada \subseteq Keys(resultados)]_vars

\* C7 witness: a case has been advanced by a call that wrote rows.
C7_Witness ==
    /\ EnLlamada
    /\ pc = "ins_ret"
    /\ pre_estado = PENDIENTE
    /\ estados[caso_id].ESTADO = RIESGOS_IDENTIFICADOS
    /\ written # {}

\* C8 as stated: after any persistence failure has propagated, the store
\* holds no row written by that call and the case status is unchanged.
C8_Original ==
    (EnLlamada /\ pc = "ins_raised") =>
        (written = {} /\ estados[caso_id].ESTADO = pre_estado)

\* C8 amended: after a persistence failure has propagated nothing uncommitted
\* is left on the connection and the case status is unchanged; a failure of
\* the insert leaves no row of that call in the store, while a failure of the
\* status update leaves the rows its insert committed.
C8_Amended ==
    (EnLlamada /\ pc = "ins_raised") =>
        /\ txn = {}
        /\ upd = {}
        /\ estados[caso_id].ESTADO = pre_estado
        /\ ~ins_committed => written = {}
        /\ ins_committed => ClavesDeLaLlamada \subseteq Keys(resultados)

\* C8 witness: the status update failed after the insert had stored rows.
C8_Witness ==
    /\ EnLlamada
    /\ pc = "ins_raised"
    /\ error = "DBError"
    /\ ins_committed
    /\ written # {}
    /\ estados[caso_id].ESTADO = pre_estado

\* C9 as stated: within one case, two risks that differ in document type,
\* document number or plate derive different RIESGO_MOTOR_IDs.
C9_Original ==
    pc = "ins_exec" =>
        \A i, j \in 1..Len(riesgos) :
            riesgos[i] # riesgos[j] =>
                registros[i].RIESGO_MOTOR_ID # registros[j].RIESGO_MOTOR_ID

----------------------------------------------------------------------------
(* Properties of the collective orchestrator, checked under SpecCol *)

\* the requests issued so far to one source
LlamadasA(nombre) == {k \in 1..Len(calls) : calls[k].fuente = nombre}

\* the list-documents request was issued and has been answered
ListaRespondida == LlamadasA(LIST_DOCUMENTOS) # {} /\ i_fuente > 1

\* the orchestrator has returned or an exception has left it
ColTerminado == pc \in {"col_ret", "raised"}

\* C1 as stated: when the list-documents call yields no result, get-document
\* is never requested in that run and the function returns an empty list.
C1_Original ==
    (ListaRespondida /\ resp_lista = Ninguna) =>
        /\ LlamadasA(GET_DOCUMENTO) = {}
        /\ pc = "col_ret" => retorno = << <<>> >>

\* C2: when the list-documents call answered with a result and its row
\* declares ID_DOC_LISTA_RIESGOS with an extraction, every get-document request
\* is built from a mapping that holds id_doc_lista_riesgos = the value the
\* row's expression extracts from that answer, and the original consecutivo.
C2_IdEnPlaceholders ==
    \A k \in LlamadasA(GET_DOCUMENTO) :
        LET fila == FilasDe(cfg, LIST_DOCUMENTOS)
        IN  (/\ fila # <<>>
             /\ ListaRespondida
             /\ CuerpoTruthy(resp_lista)
             /\ fila[1].VARIABLE_ = "ID_DOC_LISTA_RIESGOS"
             /\ PyTruthy(fila[1].EXTRACCION))
            => /\ "id_doc_lista_riesgos" \in DOMAIN calls[k].placeholders
               /\ calls[k].placeholders.id_doc_lista_riesgos
                    = _safe_eval_extraction(fila[1].EXTRACCION, resp_lista)
               /\ calls[k].placeholders.consecutivo = Request.consecutivo

\* C2 witness: list-documents yielded the id "X" and get-document was
\* requested with it.
C2_Witness ==
    \E k \in LlamadasA(GET_DOCUMENTO) :
        /\ ListaRespondida
        /\ resp_lista.id = "X"
        /\ "id_doc_lista_riesgos" \in DOMAIN calls[k].placeholders
        /\ calls[k].placeholders.id_doc_lista_riesgos = "X"
        /\ calls[k].url = "/doc/X"

\* C10 as stated, for the runs that reach persistence: once the adapter has
\* returned a list and the case was found, the run ends with the orchestrator
\* returning exactly that list, whether persistence succeeded or not.
C10_Original ==
    (ColTerminado /\ lista_de_riesgos # <<>> /\ ncalls > 0) =>
        retorno = lista_de_riesgos

\* C10 amended: once the adapter has returned a list, a run that returns
\* returns exactly that list (case not found, or persistence completed); a
\* run in which the case lookup or persistence raises returns nothing and the
\* exception leaves the orchestrator; rows are written only for a case that
\* the lookup found pending under the request's key.
C10_Amended ==
    lista_de_riesgos # <<>> =>
        /\ pc = "col_ret" => retorno = lista_de_riesgos
        /\ pc = "raised" => (retorno = <<>> /\ error # NoError)
        /\ pc \notin {"col_ret", "raised"} => retorno = <<>>
        /\ ncalls > 0 =>
              /\ caso_id \in CasoIds
              /\ pre_estado = PENDIENTE
              /\ estados[caso_id].CANAL_ID = Request.consecutivo
              /\ riesgos = lista_de_riesgos[1]
        /\ ncalls = 0 => resultados = {}

\* C10 witness: the list was persisted for the case found and returned.
C10_Witness ==
    /\ pc = "col_ret"
    /\ lista_de_riesgos # <<>>
    /\ lista_de_riesgos[1] # <<>>
    /\ retorno = lista_de_riesgos
    /\ written # {}

----------------------------------------------------------------------------
(* Properties of the individual orchestrator, checked under SpecInd *)

\* the task of group g ended with a body: `if resultado_api` was true
Exitosa(g) == tareas[g].st = "done" /\ CuerpoTruthy(tareas[g].resp)

\* the task of group g ended with an exception or with no result
Fallida(g) ==
    \/ tareas[g].st = "exc"
    \/ tareas[g].st = "done" /\ ~CuerpoTruthy(tareas[g].resp)

\* the variables the rows of group g declare
VariablesDeGrupo(g) == VariablesDe(FilasDe(cfg, g))

\* no other group declares variable v
Propia(v, g) == \A i \in 1..Len(cfg) : cfg[i].VARIABLE_ = v => cfg[i].FUENTE = g

\* what the rows of group g extract for variable v from the body the group
\* received: the last row that declares v with an extraction decides
ValorExtraido(g, v) ==
    LET filas == FilasDe(cfg, g)
        js == {j \in 1..Len(filas) :
                  filas[j].VARIABLE_ = v /\ PyTruthy(filas[j].EXTRACCION)}
    IN  IF js = {} THEN Null
        ELSE _safe_eval_extraction(
                 filas[CHOOSE j \in js : \A k \in js : k <= j].EXTRACCION,
                 tareas[g].resp)

\* the orchestrator is past the gather only when every task has ended
SinAbortar == pc # "ind_gather" => TareasTerminadas

\* C3 as stated: whatever the groups are, a failing group never aborts or
\* alters its siblings: once the gather is over, the merged record holds the
\* extracted value for every variable of each succeeding group and null for
\* every variable of each failing group, and the aggregation runs.
C3_Original ==
    /\ SinAbortar
    /\ pc = "ind_caso" =>
          \A g \in DOMAIN tareas : \A v \in VariablesDeGrupo(g) :
              /\ Exitosa(g) => variables_dict[v] = ValorExtraido(g, v)
              /\ Fallida(g) => variables_dict[v] = Null

\* C3 amended: the same, for the variables that a single group declares; a
\* variable declared by several groups is outside the guarantee.
C3_Amended ==
    /\ SinAbortar
    /\ pc = "ind_caso" =>
          \A g \in DOMAIN tareas : \A v \in VariablesDeGrupo(g) :
              Propia(v, g) =>
                  /\ Exitosa(g) => variables_dict[v] = ValorExtraido(g, v)
                  /\ Fallida(g) => variables_dict[v] = Null

\* the aggregation runs after one group raised and its sibling succeeded: the
\* failing group's own variable is null, the sibling's own variable is extracted
C3_Witness ==
    /\ pc = "ind_caso"
    /\ \E g \in DOMAIN tareas, h \in DOMAIN tareas :
          /\ tareas[g].st = "exc"
          /\ \E v \in VariablesDeGrupo(g) : Propia(v, g) /\ variables_dict[v] = Null
          /\ Exitosa(h)
          /\ \E w \in VariablesDeGrupo(h) : Propia(w, h) /\ variables_dict[w] = "123"

\* C6: when the insert step of a call fails (nothing of the call's insert is
\* committed and an exception is raised), the connection holds no uncommitted
\* write, the status update was not executed, the case keeps its status, and
\* the exception leaves the persistence routine and then the orchestrator,
\* which returns nothing.
C6_InsertFallaPropaga ==
    (ret = "ind" /\ ncalls > 0 /\ error # NoError /\ ~ins_committed) =>
        /\ pc \in {"ins_raised", "raised"}
        /\ txn = {}
        /\ upd = {}
        /\ ~upd_executed
        /\ written = {}
        /\ resultados = {}
        /\ estados[caso_id].ESTADO = pre_estado
        /\ retorno = <<>>

\* the insert was executed and failed, and the exception left the orchestrator
C6_Witness ==
    /\ pc = "raised"
    /\ ret = "ind"
    /\ ncalls = 1
    /\ error = "DBError"
    /\ registros # <<>>
    /\ ~ins_committed
    /\ ~upd_executed

----------------------------------------------------------------------------
(* The individual orchestrator after the gather *)

\* the lookup of the case is over and it raised nothing
TrasBuscarCaso == pc \notin {"ind_gather", "ind_caso"} /\ ~(pc = "raised" /\ ncalls = 0)

\* C11: in the individual orchestrator persistence is called only for a case
\* that the lookup found pending; when the lookup finds none, the orchestrator
\* returns the merged record, nothing is inserted, no status is updated and
\* no exception is raised.
C11_SinCasoDevuelve ==
    /\ ncalls > 0 => caso_id \in CasoIds /\ pre_estado = PENDIENTE
    /\ (TrasBuscarCaso /\ ncalls = 0) =>
          /\ pc = "ind_ret"
          /\ retorno = << <<variables_dict>> >>
          /\ error = NoError
          /\ resultados = {} /\ txn = {} /\ upd = {}
          /\ ~upd_executed
          /\ estados \in EstadosInd
          /\ obtener_caso_id_por_consecutivo(estados) = NoCaso

\* no pending case, and a record with an extracted value is returned
C11_Witness ==
    /\ pc = "ind_ret"
    /\ ncalls = 0
    /\ obtener_caso_id_por_consecutivo(estados) = NoCaso
    /\ \E v \in DOMAIN variables_dict : variables_dict[v] = "123"
    /\ retorno = << <<variables_dict>> >>

----------------------------------------------------------------------------
(* The get-document step of the collective orchestrator *)

\* the get-document request was issued and has been answered
DocRespondido ==
    /\ LlamadasA(GET_DOCUMENTO) # {}
    /\ ~(pc = "col_wait" /\ i_fuente = 2)

\* the first get-document row of the configuration
DocFila == FilasDe(cfg, GET_DOCUMENTO)[1]

\* the body carries an attachment that decodes to bytes
AdjuntoDecodificable(r) == r.kind = "dict" /\ PyTruthy(_excel_bytes_from_result(r))

\* the adapter was awaited and did not return a list
AdaptadorSinLista == pc # "col_gemini" /\ lista_de_riesgos = <<>>

\* C12 as stated: once get-document has answered, if it yielded no result, or
\* its row has no prompt, or the attachment cannot be decoded, or the adapter
\* returned no list, then the function raises nothing, returns an empty list,
\* looks up no case and writes nothing.
C12_Original ==
    (DocRespondido /\ (\/ ~CuerpoTruthy(resultado_api)
                       \/ ~PyTruthy(DocFila.PROMPT)
                       \/ ~AdjuntoDecodificable(resultado_api)
                       \/ AdaptadorSinLista)) =>
        /\ pc \in {"col_loop", "col_ret"}
        /\ pc = "col_ret" => retorno = << <<>> >>
        /\ ncalls = 0
        /\ lista_de_riesgos = <<>>
        /\ resultados = {} /\ txn = {} /\ upd = {}

----------------------------------------------------------------------------
(* The collective orchestration as a state machine *)

\* the persistence routine is running for the orchestrator
EnPersistencia ==
    pc \in {"ins_begin", "ins_exec", "ins_commit", "upd_exec", "upd_commit",
            "ins_ret", "ins_raised"}

\* The state of the pipeline.  EXTRACT lasts from the call of the adapter to
\* the end of persistence; EMPTY begins when the loop has nothing left to do.
Fase ==
    IF pc = "raised" THEN "FAILED"
    ELSE IF pc = "col_ret"
         THEN IF lista_de_riesgos # <<>> THEN "DONE" ELSE "EMPTY"
    ELSE IF pc \in {"col_gemini", "col_caso"} \/ EnPersistencia THEN "EXTRACT"
    ELSE IF pc = "col_loop" /\ i_fuente > Len(fuentes_en_orden) THEN "EMPTY"
    ELSE IF calls = <<>> THEN "START"
    ELSE IF calls[Len(calls)].fuente = LIST_DOCUMENTOS THEN "LIST_DOCS"
    ELSE "GET_DOC"

TransicionesDeclaradas ==
    {<<"START", "LIST_DOCS">>, <<"LIST_DOCS", "GET_DOC">>, <<"LIST_DOCS", "EMPTY">>,
     <<"GET_DOC", "EXTRACT">>, <<"GET_DOC", "EMPTY">>,
     <<"EXTRACT", "DONE">>, <<"EXTRACT", "EMPTY">>}

\* a source without configuration rows is skipped, and an exception ends the run
TransicionesDelCodigo ==
    TransicionesDeclaradas
    \cup {<<"START", "GET_DOC">>, <<"START", "EMPTY">>}
    \cup {<<f, "FAILED">> : f \in {"START", "LIST_DOCS", "GET_DOC", "EXTRACT"}}

\* a step that issues no request, extracts nothing and touches no store
SinEfecto ==
    UNCHANGED <<calls, placeholders, resultado_api, lista_de_riesgos, dbvars>>

\* C13 as stated: a run takes only the transitions START -> LIST_DOCS ->
\* {GET_DOC | EMPTY}, GET_DOC -> {EXTRACT | EMPTY}, EXTRACT -> {DONE | EMPTY},
\* eventually reaches EMPTY or DONE, and does nothing more once it is there.
C13_Original ==
    /\ [][Fase' # Fase => <<Fase, Fase'>> \in TransicionesDeclaradas]_vars
    /\ [][(Fase \in {"EMPTY", "DONE"}) => SinEfecto]_vars
    /\ <>(Fase \in {"EMPTY", "DONE"})

\* C13 amended: besides the declared transitions a run may go START -> GET_DOC
\* or START -> EMPTY (a source with no configuration row is skipped) and from
\* any non-terminal state to FAILED (an exception leaves the orchestrator); it
\* eventually reaches EMPTY, DONE or FAILED and does nothing more once there.
C13_Amended ==
    /\ [][Fase' # Fase => <<Fase, Fase'>> \in TransicionesDelCodigo]_vars
    /\ [][(Fase \in {"EMPTY", "DONE", "FAILED"}) => SinEfecto]_vars
    /\ <>(Fase \in {"EMPTY", "DONE", "FAILED"})

\* a run that went through both sources and the adapter and persisted its list
C13_Witness ==
    /\ Fase = "DONE"
    /\ LlamadasA(LIST_DOCUMENTOS) # {}
    /\ LlamadasA(GET_DOCUMENTO) # {}
    /\ ncalls = 1
    /\ ins_committed

----------------------------------------------------------------------------
(* Properties of the endpoint, checked under SpecApi *)

\* TIPO_PRODUCTO of the first row, trimmed and in upper case
TipoConfigurado == Upper(Strip(api.tipo))

\* no orchestrator has done anything: no request, no task, no adapter result,
\* no case lookup, no call of persistence, no write
SinOrquestacion ==
    /\ calls = <<>>
    /\ ColInactivo
    /\ IndInactivo
    /\ retorno = <<>>
    /\ ncalls = 0
    /\ resultados = {} /\ txn = {} /\ upd = {}
    /\ estados \in EstadosInd

\* C14: with a configuration whose type, trimmed and upper-cased, is neither
\* INDIVIDUAL nor COLECTIVO, the endpoint answers 400 and no orchestration
\* step ever happens; INDIVIDUAL starts the parallel orchestrator and only it,
\* COLECTIVO the sequential one and only it.
C14_TipoInvalidoRechazado ==
    (cfg # <<>> /\ pc # "api_begin") =>
        /\ TipoConfigurado \notin {INDIVIDUAL, COLECTIVO} =>
              pc = "api_fin" /\ api.status = 400 /\ SinOrquestacion
        /\ TipoConfigurado = INDIVIDUAL =>
              ret = "ind" /\ ColInactivo /\ calls = <<>> /\ api.status \in {SinRespuesta, 200}
        /\ TipoConfigurado = COLECTIVO =>
              ret = "col" /\ IndInactivo /\ api.status \in {SinRespuesta, 200}

\* a type that is not valid even after trimming was rejected
C14_Witness ==
    /\ pc = "api_fin"
    /\ cfg # <<>>
    /\ api.tipo = <<"C", "O", "L", "E", "C", "T", "I", "V", "A">>
    /\ api.status = 400
    /\ SinOrquestacion

\* C15: when an orchestrator has returned and the response is sent, the
\* response is a 200; it carries the empty-result message exactly when the
\* returned list of risks is empty.
C15_MensajeSiVacio ==
    (pc = "api_fin" /\ retorno # <<>>) =>
        /\ api.status = 200
        /\ retorno[1] = <<>> <=> api.mensaje = MensajeSinRiesgos
        /\ retorno[1] # <<>> <=> api.mensaje = Null

\* the collective orchestrator returned no risk and the message was attached
C15_Witness ==
    /\ pc = "api_fin"
    /\ ret = "col"
    /\ retorno = << <<>> >>
    /\ api.status = 200
    /\ api.mensaje = MensajeSinRiesgos

----------------------------------------------------------------------------
(* Properties of the Source Invoker, checked under SpecReq *)

\* C16 as stated: for every row and mapping _request_por_fuente raises
\* nothing: a failure while building or issuing the request makes it return
\* None, and a successful call makes it return the decoded body.
C16_Original ==
    /\ pc # "raised"
    /\ error = NoError
    /\ pc = "req_ret" => resultado_api \in Respuestas

----------------------------------------------------------------------------
(* The extraction of a group, checked under SpecIndGet *)

\* the call of group g returned a decoded body, whatever its value
ConCuerpo(g) == tareas[g].st = "done" /\ tareas[g].resp # Ninguna

\* what the Safe Extractor gives for the last row of group g that declares v
ValorDeLaFila(g, v) ==
    LET filas == FilasDe(cfg, g)
        js == {j \in 1..Len(filas) : filas[j].VARIABLE_ = v}
    IN  _safe_eval_extraction(
            filas[CHOOSE j \in js : \A k \in js : k <= j].EXTRACCION, tareas[g].resp)

\* C17 as stated: there is one task, hence one request, per distinct FUENTE,
\* and when the gather is over every group whose call returned a decoded body,
\* whatever its value, has the Safe Extractor's result of its rows stored under
\* the rows' variables.
C17_Original ==
    /\ pc = "ind_gather" => DOMAIN tareas = Grupos(cfg)
    /\ pc = "ind_caso" =>
          \A g \in DOMAIN tareas : \A v \in VariablesDeGrupo(g) :
              (ConCuerpo(g) /\ Propia(v, g)) =>
                  variables_dict[v] = ValorDeLaFila(g, v)

----------------------------------------------------------------------------
(* The fan-in of the individual orchestrator, checked under SpecInd *)

\* C18: the orchestrator is past the gather (case lookup, persistence, return)
\* only when no task of a group is left running; the record handed to
\* persistence is the merged record, the only row the call can store is built
\* from it, and the record returned is the same merged record.
C18_Barrera ==
    /\ pc # "ind_gather" =>
          \A g \in DOMAIN tareas : tareas[g].st \notin {"init", "wait"}
    /\ ncalls > 0 =>
          /\ riesgos = <<RiesgoDe(variables_dict)>>
          /\ written \subseteq {Registro(caso_id, RiesgoDe(variables_dict))}
    /\ retorno # <<>> => retorno = << <<variables_dict>> >>

\* two groups ended, and the merged record was stored and returned
C18_Witness ==
    /\ pc = "ind_ret"
    /\ Cardinality(Grupos(cfg)) = 2
    /\ ncalls = 1
    /\ retorno = << <<variables_dict>> >>
    /\ written = {Registro(caso_id, RiesgoDe(variables_dict))}
    /\ Get(variables_dict, "NUMERO_DOCUMENTO") = "123"

----------------------------------------------------------------------------
(* Variables shared by groups, checked under SpecInd *)

\* this step ends the task of group g
Termina(g) ==
    /\ g \in DOMAIN tareas
    /\ tareas[g].st \in {"init", "wait"}
    /\ tareas'[g].st \in {"done", "exc"}

\* a row of group g declares v with an extraction
ExtraeVariable(g, v) ==
    \E i \in 1..Len(cfg) :
        cfg[i].FUENTE = g /\ cfg[i].VARIABLE_ = v /\ PyTruthy(cfg[i].EXTRACCION)

\* when no two groups share a variable, the merged record after the gather is
\* decided by what each group received, not by the order of completion
SinCompartirSinOrden ==
    (pc = "ind_caso" /\ \A g \in DOMAIN tareas : \A v \in VariablesDeGrupo(g) : Propia(v, g)) =>
        \A g \in DOMAIN tareas : \A v \in VariablesDeGrupo(g) :
            variables_dict[v] = IF Exitosa(g) THEN ValorExtraido(g, v) ELSE Null

\* C19 as stated: whenever a group completes, hence is the last to have
\* completed, each of its variables holds what that group produced (its
\* extraction if it succeeded, null if it failed), whatever the other groups
\* did; and with disjoint variable names the record does not depend on the
\* order of completion.
C19_Original ==
    /\ [][\A g \in Fuentes : Termina(g) =>
             \A v \in VariablesDeGrupo(g) :
                 variables_dict'[v] =
                     IF Exitosa(g)' THEN ValorExtraido(g, v)' ELSE Null]_vars
    /\ []SinCompartirSinOrden

\* C19 amended: a group that completes writes a variable only if its call
\* succeeded and one of its rows extracts the variable; otherwise the variable
\* keeps what it held, and no other step changes the record.  So a shared
\* variable ends with the value of the last group to complete among those that
\* succeeded and extract it (null when there is none); with disjoint variable
\* names the record does not depend on the order of completion.
C19_Amended ==
    /\ [][\A g \in Fuentes : Termina(g) =>
             \A v \in DOMAIN variables_dict :
                 variables_dict'[v] =
                     IF Exitosa(g)' /\ ExtraeVariable(g, v)
                     THEN ValorExtraido(g, v)' ELSE variables_dict[v]]_vars
    /\ [][(\A g \in Fuentes : ~Termina(g)) => variables_dict' = variables_dict]_vars
    /\ []SinCompartirSinOrden

\* two groups share a variable, both succeeded with different values, and the
\* record holds one of the two
C19_Witness ==
    /\ pc = "ind_caso"
    /\ \E g \in DOMAIN tareas, h \in DOMAIN tareas, v \in DOMAIN variables_dict :
          /\ g # h
          /\ ExtraeVariable(g, v) /\ ExtraeVariable(h, v)
          /\ Exitosa(g) /\ Exitosa(h)
          /\ ValorExtraido(g, v) = "123"
          /\ ValorExtraido(h, v) = "X1"
          /\ variables_dict[v] = "X1"


----------------------------------------------------------------------------
(* The keys of variables_dict, checked under SpecInd *)

\* this step is a step of the task of group g
PasoDe(g) == g \in DOMAIN tareas /\ tareas'[g] # tareas[g]

\* C20: throughout an individual orchestration variables_dict has exactly the
\* declared variable names as keys: it starts with every declared variable
\* mapped to null, no step removes a key or adds an undeclared one, and the
\* task of a group writes only variables declared by the rows of that group
C20_ClavesDeclaradas ==
    /\ \A v \in DOMAIN variables_dict : variables_dict[v] = Null
    /\ [](DOMAIN variables_dict = VariablesDe(cfg))
    /\ [][DOMAIN variables_dict' = DOMAIN variables_dict]_vars
    /\ [][\A v \in DOMAIN variables_dict :
             variables_dict'[v] # variables_dict[v] =>
                 \E g \in Fuentes : PasoDe(g) /\ v \in VariablesDeGrupo(g)]_vars

\* a group has written its own variable, and the variable that only another
\* group declares is still a key mapped to null
C20_Witness ==
    /\ DOMAIN variables_dict = {"NUMERO_DOCUMENTO", "PLACA"}
    /\ \E g \in DOMAIN tareas :
          /\ tareas[g].st = "done"
          /\ CuerpoTruthy(tareas[g].resp)
          /\ VariablesDeGrupo(g) = {"NUMERO_DOCUMENTO"}
          /\ variables_dict["NUMERO_DOCUMENTO"] = "123"
          /\ variables_dict["PLACA"] = Null

----------------------------------------------------------------------------
(* The value returned by the individual orchestrator *)

\* the individual orchestrator with the event loop running every coroutine
\* that can run
SpecIndFair == SpecIndGet /\ WF_vars(NextInd)

----------------------------------------------------------------------------
(* The order of the calls of the collective orchestrator *)

\* the requests that were issued and not yet answered
EnVuelo ==
    {k \in 1..Len(calls) :
        /\ pc = "col_wait"
        /\ i_fuente <= Len(fuentes_en_orden)
        /\ calls[k].fuente = nombre_fuente}

\* the mapping after the list-documents step of this run
TrasPasoLista ==
    LET fila == FilasDe(cfg, LIST_DOCUMENTOS)
    IN  IF fila # <<>> /\ CuerpoTruthy(resp_lista)
        THEN TrasLista(PlaceholdersIniciales, fila[1], resp_lista)
        ELSE PlaceholdersIniciales

\* C22: the collective orchestrator is strictly sequential: at most one
\* request is in flight at any time, a request is issued only when none is in
\* flight and neither the adapter nor the database is awaited, and the
\* get-document request comes after the list-documents request has been
\* answered and is built from the mapping with the list extraction applied.
C22_Secuencial ==
    /\ [](Cardinality(EnVuelo) <= 1)
    /\ [][calls' # calls =>
            /\ pc = "col_loop" /\ pc' = "col_wait"
            /\ EnVuelo = {}
            /\ \E c \in [fuente : {LIST_DOCUMENTOS, GET_DOCUMENTO},
                         placeholders : {placeholders},
                         url : {_format_values(config_api.URL, placeholders).txt}] :
                  calls' = Append(calls, c)]_vars
    /\ [](\A k \in LlamadasA(GET_DOCUMENTO) :
            /\ i_fuente >= 2
            /\ \A j \in LlamadasA(LIST_DOCUMENTOS) : j < k /\ j \notin EnVuelo
            /\ calls[k].placeholders = TrasPasoLista
            /\ calls[k].url = _format_values(FilasDe(cfg, GET_DOCUMENTO)[1].URL,
                                             TrasPasoLista).txt)

\* list-documents was answered with the id "X", and the get-document request
\* built with it is the only one in flight
C22_Witness ==
    /\ Len(calls) = 2
    /\ EnVuelo = {2}
    /\ calls[1].fuente = LIST_DOCUMENTOS
    /\ calls[2].fuente = GET_DOCUMENTO
    /\ resp_lista.id = "X"
    /\ calls[2].placeholders = TrasPasoLista
    /\ calls[2].url = "/doc/X"

----------------------------------------------------------------------------
(* Rows of other sources in the collective orchestrator *)

\* the row is of one of the two sources of the sequence
DeLaSecuencia(f) == f.FUENTE \in {LIST_DOCUMENTOS, GET_DOCUMENTO}

\* the sources of the sequence that the configuration holds
FuentesConfiguradas ==
    {n \in {LIST_DOCUMENTOS, GET_DOCUMENTO} : FilasDe(cfg, n) # <<>>}

\* C23: in the collective orchestrator the rows whose source is neither
\* FILENET_LIST_DOCUMENTOS nor FILENET_GET_DOCUMENTO are ignored: every
\* request is for one of the two sources and is built from the first row of
\* that source, there is at most one request per configured source of the
\* two, the mapping holds only what the list-documents row extracted, and a
\* configuration with no row of the two sources issues no request and
\* returns the empty list.
C23_OtrasIgnoradas ==
    /\ \A k \in 1..Len(calls) :
          /\ calls[k].fuente \in FuentesConfiguradas
          /\ calls[k].url =
                _format_values(SelectSeq(cfg, LAMBDA f : f.FUENTE = calls[k].fuente)[1].URL,
                               calls[k].placeholders).txt
    /\ Len(calls) <= Cardinality(FuentesConfiguradas)
    /\ placeholders \in {PlaceholdersIniciales, TrasPasoLista}
    /\ FilasDe(cfg, LIST_DOCUMENTOS) = <<>> => placeholders = PlaceholdersIniciales
    /\ FilasDe(cfg, GET_DOCUMENTO) = <<>> => lista_de_riesgos = <<>> /\ ncalls = 0
    /\ FuentesConfiguradas = {} =>
          /\ calls = <<>>
          /\ pc \in {"col_loop", "col_ret"}
          /\ pc = "col_ret" => retorno = << <<>> >>

\* the first row is of another source and declares the id variable; the
\* orchestrator returned the empty list without a request for it
C23_Witness ==
    /\ Len(cfg) = 2
    /\ ~DeLaSecuencia(cfg[1])
    /\ cfg[1].VARIABLE_ = "ID_DOC_LISTA_RIESGOS"
    /\ cfg[2].FUENTE = GET_DOCUMENTO
    /\ Len(calls) = 1
    /\ calls[1].url = "/doc/{id_doc_lista_riesgos}"
    /\ placeholders = PlaceholdersIniciales
    /\ pc = "col_ret"
    /\ retorno = << <<>> >>

----------------------------------------------------------------------------
(* One orchestration call in either mode *)

InitModos == InitCol \/ InitInd

NextModos == NextCol \/ NextInd

SpecModos == InitModos /\ [][NextModos]_vars

\* the states a task of the individual orchestrator goes through: the request
\* is issued once, or raises before it is issued, and is answered once
PasosDeTarea ==
    {<<"init", "wait">>, <<"init", "exc">>, <<"wait", "done">>}

\* C24: no source call is retried: in one orchestration call each source name
\* is invoked at most once, whether its call succeeds or fails. Collective
\* mode issues at most one request per source name; individual mode has one
\* task per source name, and a task issues its request once and never again
\* after it was answered or raised.
C24_SinReintentos ==
    /\ [](\A k \in 1..Len(calls) :
            Cardinality(LlamadasA(calls[k].fuente)) = 1)
    /\ [](ret = "ind" /\ pc = "ind_gather" => DOMAIN tareas = Grupos(cfg))
    /\ [][\A g \in Fuentes :
            (g \in DOMAIN tareas /\ g \in DOMAIN tareas' /\ tareas'[g] # tareas[g])
                => <<tareas[g].st, tareas'[g].st>> \in PasosDeTarea]_vars
    /\ [][(ret = "col" /\ i_fuente' # i_fuente) => i_fuente' = i_fuente + 1]_vars

\* collective mode: both sources were requested once, both calls failed, and
\* the orchestrator returned
C24_Witness ==
    /\ ret = "col"
    /\ pc = "col_ret"
    /\ Len(calls) = 2
    /\ calls[1].fuente = LIST_DOCUMENTOS
    /\ calls[2].fuente = GET_DOCUMENTO
    /\ resp_lista = Ninguna
    /\ resultado_api = Ninguna

----------------------------------------------------------------------------
(* Placeholder substitution, checked under SpecReq on the URL of a row *)

\* the names of the replacement fields of a template
CamposDe(tpl) == {tpl[i].v : i \in {j \in 1..Len(tpl) : tpl[j].k = "campo"}}

\* _format_values has been applied to the URL of the row
UrlFormateada == pc # "req_begin"

\* C25 as stated: _format_values never raises; a string with no {...} span, or
\* one that names a placeholder absent from the mapping, is returned
\* unchanged, and a string that names only defined placeholders has each
\* {name} replaced by its value.
C25_Original ==
    UrlFormateada =>
        /\ pc # "raised"
        /\ error = NoError
        /\ calls # <<>>
        /\ LET tpl == cfg[1].URL
           IN  calls[1].url =
                  IF CamposDe(tpl) = {} \/ ~(CamposDe(tpl) \subseteq DOMAIN placeholders)
                  THEN Texto(tpl)
                  ELSE StrFormat(tpl, placeholders).txt

----------------------------------------------------------------------------
(* The helper functions called alone *)

\* everything but the control location, the helper's record and the exception
restovars ==
    <<ret, riesgos, caso_id, registros, idx, txn, upd, resultados, estados,
      ncalls, ins_committed, written, pre_estado, upd_executed, cfg, api,
      placeholders, calls, retorno, colvars, indvars>>

\* no orchestration runs while a helper is called alone
SoloHelper ==
    /\ ret = "helper"
    /\ SinLlamadas
    /\ estados = EstadosIniciales
    /\ cfg = <<>>
    /\ api = ApiInactiva
    /\ placeholders = PlaceholdersIniciales
    /\ calls = <<>>
    /\ retorno = <<>>
    /\ ColInactivo
    /\ IndInactivo

\* Python values: a kind and, for a container, its items as <<key, value>>
DictVacio == [kind |-> "dict", items |-> {}]
DictA == [kind |-> "dict", items |-> {<<"a", "1">>}]
ListaUnoDos == [kind |-> "list", items |-> {<<"0", "1">>, <<"1", "2">>}]
EnteroSiete == [kind |-> "int", items |-> {<<"", "7">>}]
PyNone == [kind |-> "none", items |-> {}]
Str(t) == [kind |-> "str", items |-> {<<"", t>>}]

\* the text of a str value
TextoDe(value) == (CHOOSE par \in value.items : TRUE)[2]

\* value.strip() is not empty, for the texts of the model
StripNoVacio(t) == t \notin {"", "  "}

\* the texts a HEADER, PAYLOAD or PARAMS column can hold
TextosMapping ==
    {"", "  ", "not a dict", "{'a': 1}", "{'a': ", "[1, 2]", "7", "{[1]: 2}"}

\* what _parse_mapping can receive: a dict, a text, or None of a NULL column
ValoresMapping == {DictA, PyNone} \cup {Str(t) : t \in TextosMapping}

\* ast.literal_eval(value) of the texts of the model: the literal, or the
\* exception it raises. "{[1]: 2}" is a well-formed display whose key cannot
\* be hashed.
literal_eval(t) ==
    IF t = "{'a': 1}" THEN [exc |-> NoError, val |-> DictA]
    ELSE IF t = "[1, 2]" THEN [exc |-> NoError, val |-> ListaUnoDos]
    ELSE IF t = "7" THEN [exc |-> NoError, val |-> EnteroSiete]
    ELSE IF t = "{[1]: 2}" THEN [exc |-> "TypeError", val |-> PyNone]
    ELSE [exc |-> "SyntaxError", val |-> PyNone]

\* _parse_mapping(value): what it returns, or the exception that leaves it
_parse_mapping(value) ==
    IF value.kind = "dict" THEN [exc |-> NoError, val |-> value]
    ELSE IF value.kind = "str" /\ StripNoVacio(TextoDe(value))
         THEN LET e == literal_eval(TextoDe(value))
              IN  IF e.exc \in {"ValueError", "SyntaxError"}
                  THEN [exc |-> NoError, val |-> DictVacio]
                  ELSE e
    ELSE [exc |-> NoError, val |-> DictVacio]

\* the three columns of a row that _request_por_fuente parses, in order
ColumnasMapping == <<"HEADER", "PAYLOAD", "PARAMS">>

\* lines 186-188: header_str, payload_str and params_str of a row
InitParse ==
    /\ pc = "parse"
    /\ SoloHelper
    /\ helper \in [args : [1..Len(ColumnasMapping) -> ValoresMapping], res : {<<>>}]

\* lines 192-194: the next column is parsed and _parse_mapping returns
ParseColumna ==
    /\ pc = "parse"
    /\ Len(helper.res) < Len(ColumnasMapping)
    /\ LET r == _parse_mapping(helper.args[Len(helper.res) + 1])
       IN  /\ r.exc = NoError
           /\ helper' = [helper EXCEPT !.res = Append(@, r.val)]
    /\ UNCHANGED <<pc, error, restovars>>

\* an exception leaves _parse_mapping
ParseRaise ==
    /\ pc = "parse"
    /\ Len(helper.res) < Len(ColumnasMapping)
    /\ LET r == _parse_mapping(helper.args[Len(helper.res) + 1])
       IN  /\ r.exc # NoError
           /\ error' = r.exc
    /\ pc' = "raised"
    /\ UNCHANGED <<helper, restovars>>

\* the three columns are parsed
ParseFin ==
    /\ pc = "parse"
    /\ Len(helper.res) = Len(ColumnasMapping)
    /\ pc' = "parse_ret"
    /\ UNCHANGED <<helper, error, restovars>>

NextParse == ParseColumna \/ ParseRaise \/ ParseFin

SpecParse == InitParse /\ [][NextParse]_vars

\* C26 as stated: _parse_mapping always returns a mapping and never raises:
\* a mapping is returned as is, a text holding a literal mapping is returned
\* as that mapping, and every other input yields the empty mapping.
C26_Original ==
    /\ pc # "raised"
    /\ error = NoError
    /\ \A i \in 1..Len(helper.res) :
          /\ helper.res[i].kind = "dict"
          /\ helper.res[i] =
                IF helper.args[i].kind = "dict" THEN helper.args[i]
                ELSE IF helper.args[i] = Str("{'a': 1}") THEN DictA
                ELSE DictVacio

----------------------------------------------------------------------------
(* _safe_eval_extraction called on the rows of one group *)

ExprMal == "result['id'"
ExprSalir == "__import__('sys').exit()"
ExprPop == "result.pop('id').x"

\* the EXTRACCION values of the rows: None, empty, blank, and expressions
Expresiones == {Null, "", "  ", ExprId, ExprGet, ExprMal, ExprSalir, ExprPop}

\* the exception of eval(expression, {"result": result}) that is not an
\* Exception and so passes `except Exception`: eval adds __builtins__ to the
\* globals it is given, and sys.exit() raises SystemExit
_safe_eval_raises(expression) ==
    IF expression = ExprSalir THEN "SystemExit" ELSE NoError

\* the response after eval: an expression can change the object bound to
\* `result` before it fails
ResultTrasEval(expression, result) ==
    IF expression = ExprPop /\ result.kind = "dict" /\ result.id # Absent
    THEN [result EXCEPT !.id = Absent]
    ELSE result

\* one response and the expressions of the rows of its group
InitExt ==
    /\ pc = "ext_loop"
    /\ SoloHelper
    /\ helper \in [exprs : UNION {[1..n -> Expresiones] : n \in 1..MaxFilas},
                   result0 : Cuerpos, result : Cuerpos, vals : {<<>>}]
    /\ helper.result = helper.result0

\* the expression of the next row is evaluated and its value is kept
ExtFila ==
    /\ pc = "ext_loop"
    /\ Len(helper.vals) < Len(helper.exprs)
    /\ LET e == helper.exprs[Len(helper.vals) + 1]
       IN  /\ _safe_eval_raises(e) = NoError
           /\ helper' = [helper EXCEPT
                            !.vals = Append(@, _safe_eval_extraction(e, helper.result)),
                            !.result = ResultTrasEval(e, @)]
    /\ UNCHANGED <<pc, error, restovars>>

\* the evaluation raises what `except Exception` does not catch
ExtRaise ==
    /\ pc = "ext_loop"
    /\ Len(helper.vals) < Len(helper.exprs)
    /\ LET e == helper.exprs[Len(helper.vals) + 1]
       IN  /\ _safe_eval_raises(e) # NoError
           /\ error' = _safe_eval_raises(e)
    /\ pc' = "raised"
    /\ UNCHANGED <<helper, restovars>>

\* every row of the group was evaluated
ExtFin ==
    /\ pc = "ext_loop"
    /\ Len(helper.vals) = Len(helper.exprs)
    /\ pc' = "ext_ret"
    /\ UNCHANGED <<helper, error, restovars>>

NextExt == ExtFila \/ ExtRaise \/ ExtFin

SpecExt == InitExt /\ [][NextExt]_vars

\* C27 as stated: _safe_eval_extraction never raises into its caller; a
\* well-formed expression yields the value it selects from the response and a
\* failing one yields null, and the failure of one row affects no other row:
\* every row gets what its own expression selects from the response that the
\* source returned.
C27_Original ==
    /\ pc # "raised"
    /\ error = NoError
    /\ \A i \in 1..Len(helper.vals) :
          helper.vals[i] = _safe_eval_extraction(helper.exprs[i], helper.result0)

----------------------------------------------------------------------------
(* _procesar_con_gemini called alone *)

\* The text of the model's answer, cut in tokens: the two braces, other text,
\* and the members an object can hold: a 'riesgos' list (empty or with one
\* risk), a 'riesgos' that is null, and another field.
Llave == "{"
Cierre == "}"
Miembros == {"riesgos:[]", "riesgos:[r]", "riesgos:null", "otro:1"}
TokensTexto == {Llave, Cierre, "x"} \cup Miembros

TextosModelo == UNION {[1..n -> TokensTexto] : n \in 0..MaxTexto}

\* a search that gives the last position of c where the first is meant
FindUltimo(s, c) ==
    IF \E i \in 1..Len(s) : s[i] = c
    THEN CHOOSE i \in 1..Len(s) : s[i] = c /\ \A j \in (i + 1)..Len(s) : s[j] # c
    ELSE -1

\* raw_text.find(c): the first position of c, or -1
Find(s, c) ==
    IF \E i \in 1..Len(s) : s[i] = c
    THEN CHOOSE i \in 1..Len(s) : s[i] = c /\ \A j \in 1..(i - 1) : s[j] # c
    ELSE -1

\* raw_text.rfind(c): the last position of c, or -1
RFind(s, c) ==
    IF \E i \in 1..Len(s) : s[i] = c
    THEN CHOOSE i \in 1..Len(s) : s[i] = c /\ \A j \in (i + 1)..Len(s) : s[j] # c
    ELSE -1

\* json_string: raw_text[start_index : end_index + 1], or <<>> for None and
\* for the empty slice, both of which `not json_string` rejects
json_string(raw_text) ==
    LET start_index == Find(raw_text, Llave)
        end_index == RFind(raw_text, Cierre)
    IN  IF start_index # -1 /\ end_index # -1
        THEN SubSeq(raw_text, start_index, end_index)
        ELSE <<>>

\* json.loads(json_string): the object, as the set of its members, or the
\* JSONDecodeError
json_loads(t) ==
    IF t = <<Llave, Cierre>> THEN [exc |-> NoError, miembros |-> {}]
    ELSE IF Len(t) = 3 /\ t[1] = Llave /\ t[2] \in Miembros /\ t[3] = Cierre
         THEN [exc |-> NoError, miembros |-> {t[2]}]
    ELSE [exc |-> "JSONDecodeError", miembros |-> {}]

\* parsed_data['riesgos'] of a member that holds a list
ListaDelMiembro(m) ==
    IF m = "riesgos:[r]"
    THEN <<[TIPO_DOCUMENTO |-> "CC", NUMERO_DOCUMENTO |-> "123", PLACA |-> Null]>>
    ELSE <<>>

\* lines 145-165: what _procesar_con_gemini returns for the text of the
\* model: <<>> for None, <<lista>> for a list
RiesgosDelTexto(raw_text) ==
    LET t == json_string(raw_text)
        parsed_data == json_loads(t)
    IN  IF t = <<>> THEN <<>>
        ELSE IF parsed_data.exc # NoError THEN <<>>
        ELSE IF \E m \in parsed_data.miembros : m \in {"riesgos:[]", "riesgos:[r]"}
             THEN <<ListaDelMiembro(CHOOSE m \in parsed_data.miembros :
                                        m \in {"riesgos:[]", "riesgos:[r]"})>>
        ELSE <<>>

\* a step before the text raised: reading the workbook, or the model call
Fallo == <<"Exception">>

\* the adapter is called; the model will answer a text or a step will raise
InitGemini ==
    /\ pc = "gem_call"
    /\ SoloHelper
    /\ helper \in [salida : TextosModelo \cup {Fallo}, res : {<<>>}]

\* lines 125-142 raise: `except Exception` returns None
GeminiExcepcion ==
    /\ pc = "gem_call"
    /\ helper.salida = Fallo
    /\ pc' = "gem_ret"
    /\ UNCHANGED <<helper, error, restovars>>

\* the model answers: lines 145-165 return the list or None
GeminiTexto ==
    /\ pc = "gem_call"
    /\ helper.salida # Fallo
    /\ helper' = [helper EXCEPT !.res = RiesgosDelTexto(helper.salida)]
    /\ pc' = "gem_ret"
    /\ UNCHANGED <<error, restovars>>

NextGemini == GeminiExcepcion \/ GeminiTexto

SpecGemini == InitGemini /\ [][NextGemini]_vars

\* the text has its first '{' at i and its last '}' at i + 2, around a
\* 'riesgos' member that holds a list
ObjetoConLista(s, i) ==
    /\ i + 2 <= Len(s)
    /\ s[i] = Llave /\ \A j \in 1..(i - 1) : s[j] # Llave
    /\ s[i + 2] = Cierre /\ \A j \in (i + 3)..Len(s) : s[j] # Cierre
    /\ s[i + 1] \in {"riesgos:[]", "riesgos:[r]"}

\* C28: _procesar_con_gemini never raises and returns a list or null: it
\* returns the value of 'riesgos' exactly when the span from the first '{' to
\* the last '}' of the model's text is a JSON object whose 'riesgos' is a
\* list; with no span, a span that does not parse, a missing or non-list
\* field, or a step that throws, it returns null.
C28_ListaONull ==
    /\ pc # "raised" /\ error = NoError
    /\ pc = "gem_ret" =>
          /\ helper.salida = Fallo => helper.res = <<>>
          /\ helper.salida # Fallo =>
                LET s == helper.salida
                IN  /\ \A i \in 1..Len(s) :
                          ObjetoConLista(s, i) => helper.res = <<ListaDelMiembro(s[i + 1])>>
                    /\ (~\E i \in 1..Len(s) : ObjetoConLista(s, i)) => helper.res = <<>>

\* the model wrapped the object in other text, and the list of one risk was
\* returned
C28_Witness ==
    /\ pc = "gem_ret"
    /\ helper.salida = <<"x", Llave, "riesgos:[r]", Cierre, "x">>
    /\ helper.res = <<ListaDelMiembro("riesgos:[r]")>>
    /\ Len(helper.res[1]) = 1

----------------------------------------------------------------------------
(* The insert of a list as one transaction, checked under SpecDB *)

\* the rows that the call prepared
FilasDeLaLlamada == {registros[i] : i \in 1..Len(registros)}

\* C29: the insert step of result persistence is all-or-nothing: the table
\* changes only at the commit of the insert, which adds at once a row for
\* every key of the list that was absent and nothing else; after the call
\* has returned or raised, either every key of the list is stored or the call
\* added no row, and a call whose insert failed added none.
C29_TodoONada ==
    /\ [][resultados' # resultados =>
            /\ pc = "ins_commit"
            /\ resultados \subseteq resultados'
            /\ resultados' \ resultados \subseteq FilasDeLaLlamada
            /\ Keys(resultados' \ resultados) = ClavesDeLaLlamada \ Keys(resultados)]_vars
    /\ []((EnLlamada /\ Terminada) =>
            \/ written = {}
            \/ /\ ClavesDeLaLlamada \subseteq Keys(resultados)
               /\ written \subseteq FilasDeLaLlamada)
    /\ []((EnLlamada /\ pc = "ins_raised" /\ ~ins_committed) =>
            written = {} /\ txn = {})

\* the insert of a list of two records failed after its first row had been
\* executed: no row of the list is stored
C29_Witness ==
    /\ EnLlamada
    /\ pc = "ins_raised"
    /\ Cardinality(ClavesDeLaLlamada) = 2
    /\ idx = 2
    /\ ~ins_committed
    /\ ClavesDeLaLlamada \cap Keys(resultados) = {}
    /\ written = {}

----------------------------------------------------------------------------
(* The endpoint called again for the same key: obtener_info_riesgo_individual
   runs again on the same connection pool and the same store *)

\* the first call: the stores of a request whose key has one or two cases
InitRepetir ==
    /\ pc = "ind_gather"
    /\ ret = "ind"
    /\ SinLlamadas
    /\ estados \in EstadosCol
    /\ cfg \in ConfigsGet
    /\ api = ApiInactiva
    /\ helper = SinHelper
    /\ placeholders = PlaceholdersIniciales
    /\ calls = <<>>
    /\ retorno = <<>>
    /\ ColInactivo
    /\ variables_dict = [v \in VariablesDe(cfg) |-> Null]
    /\ tareas = [g \in Grupos(cfg) |-> TareaNueva]

\* the orchestrator has returned or raised, and a later request with the same
\* key and the same configuration begins: new locals, the same store
IndDeNuevo ==
    /\ pc \in {"ind_ret", "raised"}
    /\ ret = "ind"
    /\ ncalls < MaxCalls
    /\ pc' = "ind_gather"
    /\ retorno' = <<>>
    /\ variables_dict' = [v \in VariablesDe(cfg) |-> Null]
    /\ tareas' = [g \in Grupos(cfg) |-> TareaNueva]
    /\ riesgos' = <<>>
    /\ caso_id' = NoCaso
    /\ registros' = <<>>
    /\ idx' = 1
    /\ error' = NoError
    /\ ins_committed' = FALSE
    /\ upd_executed' = FALSE
    /\ written' = {}
    /\ pre_estado' = PENDIENTE
    /\ UNCHANGED <<ret, txn, upd, resultados, estados, ncalls, cfg, api, helper,
                   placeholders, calls, colvars>>

NextRepetir == NextInd \/ IndDeNuevo

SpecRepetir == InitRepetir /\ [][NextRepetir]_vars

\* no case of the request's key is pending
NingunPendiente ==
    \A c \in CasoIds :
        estados[c].CANAL_ID = Request.consecutivo => estados[c].ESTADO # PENDIENTE

\* C30: once a call has persisted the records of a case and moved it out of
\* 'PENDIENTE', and no other case of the key is pending, every later
\* orchestration call for the key resolves no case identifier, makes no
\* insert and no status update, and still returns its record.
C30_SegundaLlamada ==
    /\ [][\A c \in CasoIds :
            (/\ estados[c].ESTADO = PENDIENTE
             /\ estados'[c].ESTADO = RIESGOS_IDENTIFICADOS
             /\ \A d \in CasoIds \ {c} :
                   estados[d].CANAL_ID = Request.consecutivo => estados[d].ESTADO # PENDIENTE)
            => NingunPendiente']_vars
    /\ [][NingunPendiente =>
            /\ NingunPendiente'
            /\ resultados' = resultados /\ txn' = txn
            /\ estados' = estados /\ upd' = upd
            /\ ncalls' = ncalls
            /\ pc' \notin {"ins_begin", "ins_exec", "ins_commit", "upd_exec", "upd_commit"}]_vars
    /\ []((NingunPendiente /\ pc = "ind_caso") =>
            obtener_caso_id_por_consecutivo(estados) = NoCaso)
    /\ [][(NingunPendiente /\ pc = "ind_caso" /\ pc' # "raised") =>
            pc' = "ind_ret" /\ retorno' = << <<variables_dict>> >>]_vars

\* an earlier call stored the record of the case and moved it; the later call
\* found no case, made no call of persistence and returned its record
C30_Witness ==
    /\ pc = "ind_ret"
    /\ ncalls = 1
    /\ caso_id = NoCaso
    /\ resultados # {}
    /\ NingunPendiente
    /\ retorno = << <<variables_dict>> >>
    /\ \E v \in DOMAIN variables_dict : variables_dict[v] # Null

----------------------------------------------------------------------------
(* The empty list of risks in the collective orchestrator, checked under SpecCol *)

\* _procesar_con_gemini returned the empty list
ListaVacia == lista_de_riesgos = << <<>> >>

\* C31: persisting an empty list of risks changes nothing: when the adapter
\* returns an empty list no insert and no status update is executed, the
\* case stays 'PENDIENTE', and the collective orchestrator returns
\* {"riesgos": []}; it ends otherwise only when the case lookup raises.
C31_ListaVaciaSinEfecto ==
    /\ [][ListaVacia =>
            /\ resultados' = resultados /\ estados' = estados
            /\ txn' = txn /\ upd' = upd]_vars
    /\ [](ListaVacia =>
            /\ txn = {} /\ upd = {} /\ resultados = {}
            /\ written = {} /\ ~ins_committed /\ ~upd_executed
            /\ pc \in {"col_caso", "ins_begin", "ins_ret", "col_ret", "raised"}
            /\ ncalls > 0 => (riesgos = <<>> /\ estados[caso_id].ESTADO = PENDIENTE)
            /\ pc = "col_ret" => retorno = << <<>> >>
            /\ pc = "raised" => (error = "DBError" /\ ncalls = 0))

\* the adapter returned the empty list, the pending case was found,
\* persistence was called and returned, and the orchestrator returned the
\* empty list with the case still pending
C31_Witness ==
    /\ ListaVacia
    /\ pc = "col_ret"
    /\ ncalls = 1
    /\ caso_id \in CasoIds
    /\ estados[caso_id].ESTADO = PENDIENTE
    /\ resultados = {}
    /\ retorno = << <<>> >>

====
